---- MODULE Spec2Model ----
(***************************************************************************)
(* Model of src/karate.py: KnowledgeBase, FeatureAnalyzer, TestGenerator.  *)
(* Strings are TLA+ strings; the regular expressions and str methods of    *)
(* the source are computed character by character.                         *)
(***************************************************************************)
EXTENDS Integers, Sequences, FiniteSets, TLC

VARIABLES
  \* FeatureAnalyzer fields
  analyzed_files, step_patterns, scenario_patterns,
  \* KnowledgeBase fields
  templates, response_codes, field_definitions, sql_tables, learned_patterns,
  custom_scenarios,
  \* FeatureAnalyzer.analyze: position and locals of the running call
  pc, content, lines, pos, analysis, current_section, current_content, current_tags,
  \* what analyze returned last, the documents analyzed and step_patterns after each call
  returned, docs, pattern_log,
  \* TestGenerator.generate: arguments and results of the last call
  prompt, options, intent, template, output, raised,
  \* the text a second call of generate with the same arguments returned
  output_again,
  \* FeatureAnalyzer._learn_step driven directly: the step given and the keys it produced
  step, learned_keys,
  \* KnowledgeBase calls: the last call, its argument, the dicts before it, what it raised,
  \* the knowledge base an export was imported into, and the number of calls
  kb_op, kb_arg, kb_before, kb_raised, fresh, kb_calls

analyzerVars == <<analyzed_files, step_patterns, scenario_patterns>>
kbVars == <<templates, response_codes, field_definitions, sql_tables, learned_patterns,
           custom_scenarios>>
callVars == <<pc, content, lines, pos, analysis, current_section, current_content, current_tags>>
logVars == <<returned, docs, pattern_log>>
genVars == <<prompt, options, intent, template, output, raised, output_again>>
learnVars == <<step, learned_keys>>
ioVars == <<kb_op, kb_arg, kb_before, kb_raised, fresh, kb_calls>>
vars == <<analyzerVars, kbVars, callVars, logVars, genVars, learnVars, ioVars>>

----------------------------------------------------------------------------
\* Bounds of the model

\* lines per analyzed document (Spec)
MaxLines == 4
\* lines per analyzed document and calls of analyze (SpecLearn)
MaxLearnLines == 2
MaxCalls == 2
\* lines of the document analyzed again and again, and calls of analyze (SpecRepeat)
MaxRepeatLines == 3
MaxRepeats == 2
\* characters of a step string (SpecNorm)
MaxStepLen == 6
\* words of a prompt, and entries of the knowledge base's dicts (SpecGen)
MaxPromptWords == 2
MaxTemplates == 8
MaxResponseCodes == 14
\* calls made on the knowledge base (SpecKb)
MaxKbCalls == 3
\* entries of the knowledge base's sql_tables (SpecSql)
MaxSqlTables == 3

----------------------------------------------------------------------------
\* str and re primitives

Char(s, i) == SubSeq(s, i, i)

CharsOf(s) == {Char(s, i) : i \in 1..Len(s)}

UpperChars == "ABCDEFGHIJKLMNOPQRSTUVWXYZ"
LowerChars == "abcdefghijklmnopqrstuvwxyz"
UpperSet == CharsOf(UpperChars)
LowerSet == CharsOf(LowerChars)
Digits == CharsOf("0123456789")
\* \w
WordChars == UpperSet \cup LowerSet \cup Digits \cup {"_"}
\* \s
Whitespace == {" ", "\t", "\n", "\r"}
Quotes == {"'", "\""}

ToLower == [c \in UpperSet |->
              Char(LowerChars, CHOOSE i \in 1..Len(UpperChars) : Char(UpperChars, i) = c)]
ToUpper == [c \in LowerSet |->
              Char(UpperChars, CHOOSE i \in 1..Len(LowerChars) : Char(LowerChars, i) = c)]

LowerChar(c) == IF c \in UpperSet THEN ToLower[c] ELSE c

UpperChar(c) == IF c \in LowerSet THEN ToUpper[c] ELSE c

RECURSIVE LowerFrom(_, _)
LowerFrom(s, i) == IF i > Len(s) THEN "" ELSE LowerChar(Char(s, i)) \o LowerFrom(s, i + 1)
\* str.lower
Lower(s) == LowerFrom(s, 1)

RECURSIVE UpperFrom(_, _)
UpperFrom(s, i) == IF i > Len(s) THEN "" ELSE UpperChar(Char(s, i)) \o UpperFrom(s, i + 1)
\* str.upper
Upper(s) == UpperFrom(s, 1)

\* str.startswith
StartsWith(s, p) == Len(s) >= Len(p) /\ SubSeq(s, 1, Len(p)) = p

\* s[i:].startswith(p), 1-based
MatchAt(s, i, p) == i + Len(p) - 1 <= Len(s) /\ SubSeq(s, i, i + Len(p) - 1) = p

\* p in s
Contains(s, p) == \E i \in 1..(Len(s) - Len(p) + 1) : SubSeq(s, i, i + Len(p) - 1) = p

\* str.strip
Strip(s) ==
  IF \A i \in 1..Len(s) : Char(s, i) \in Whitespace
  THEN ""
  ELSE LET first == CHOOSE i \in 1..Len(s) :
                      Char(s, i) \notin Whitespace /\ \A j \in 1..(i - 1) : Char(s, j) \in Whitespace
           last == CHOOSE i \in 1..Len(s) :
                      Char(s, i) \notin Whitespace /\ \A j \in (i + 1)..Len(s) : Char(s, j) \in Whitespace
       IN SubSeq(s, first, last)

RECURSIVE ReplaceFrom(_, _, _, _)
ReplaceFrom(s, old, new, i) ==
  IF i > Len(s) THEN ""
  ELSE IF MatchAt(s, i, old) THEN new \o ReplaceFrom(s, old, new, i + Len(old))
  ELSE Char(s, i) \o ReplaceFrom(s, old, new, i + 1)
\* str.replace, old not empty
Replace(s, old, new) == ReplaceFrom(s, old, new, 1)

RECURSIVE SplitFrom(_, _, _, _)
SplitFrom(s, sep, start, i) ==
  IF i > Len(s) THEN <<SubSeq(s, start, Len(s))>>
  ELSE IF Char(s, i) = sep THEN <<SubSeq(s, start, i - 1)>> \o SplitFrom(s, sep, i + 1, i + 1)
  ELSE SplitFrom(s, sep, start, i + 1)
\* str.split on a one-character separator
Split(s, sep) == SplitFrom(s, sep, 1, 1)

RECURSIVE Join(_, _)
\* sep.join(seq)
Join(seq, sep) ==
  IF Len(seq) = 0 THEN ""
  ELSE IF Len(seq) = 1 THEN seq[1]
  ELSE seq[1] \o sep \o Join(Tail(seq), sep)

RECURSIVE RunEnd(_, _, _)
\* last index of the longest run of characters of cs that starts at i (i - 1 when empty)
RunEnd(s, i, cs) ==
  IF i <= Len(s) /\ Char(s, i) \in cs THEN RunEnd(s, i + 1, cs) ELSE i - 1

RECURSIVE RunEndNot(_, _, _)
\* last index of the longest run of characters outside cs that starts at i
RunEndNot(s, i, cs) ==
  IF i <= Len(s) /\ Char(s, i) \notin cs THEN RunEndNot(s, i + 1, cs) ELSE i - 1

\* str.zfill
RECURSIVE Zfill(_, _)
Zfill(s, w) == IF Len(s) >= w THEN s ELSE Zfill("0" \o s, w)

\* str.title on words of letters
RECURSIVE TitleFrom(_, _)
TitleFrom(s, i) ==
  IF i > Len(s) THEN ""
  ELSE LET c == Char(s, i)
           cased == c \in UpperSet \cup LowerSet
           prevCased == i > 1 /\ Char(s, i - 1) \in UpperSet \cup LowerSet
       IN (IF ~cased THEN c ELSE IF prevCased THEN LowerChar(c) ELSE UpperChar(c))
          \o TitleFrom(s, i + 1)
Title(s) == TitleFrom(s, 1)

\* Append to a Python list
Extend(seq, more) == seq \o more

\* set(seq)
SeqToSet(seq) == {seq[i] : i \in 1..Len(seq)}

----------------------------------------------------------------------------
\* FeatureAnalyzer

\* the digits threshold of \d{4,}
MinDigits == 4

RECURSIVE SubQuotedFrom(_, _)
SubQuotedFrom(s, i) ==
  IF i > Len(s) THEN ""
  ELSE IF Char(s, i) \in Quotes /\ i + 1 <= Len(s) /\ Char(s, i + 1) \notin Quotes
       THEN LET e == RunEndNot(s, i + 1, Quotes)
            IN IF e + 1 <= Len(s)
               THEN "\"{value}\"" \o SubQuotedFrom(s, e + 2)
               ELSE Char(s, i) \o SubQuotedFrom(s, i + 1)
       ELSE Char(s, i) \o SubQuotedFrom(s, i + 1)
RECURSIVE SubQuotedOpenFrom(_, _)
SubQuotedOpenFrom(s, i) ==
  IF i > Len(s) THEN ""
  ELSE IF Char(s, i) \in Quotes /\ i + 1 <= Len(s) /\ Char(s, i + 1) \notin Quotes
       THEN "\"{value}\"" \o SubQuotedOpenFrom(s, RunEndNot(s, i + 1, Quotes) + 1)
       ELSE Char(s, i) \o SubQuotedOpenFrom(s, i + 1)
\* a substitution whose pattern has no closing quote: re.sub(r'[\'"][^"\']+', '"{value}"', s)
SubQuotedOpen(s) == SubQuotedOpenFrom(s, 1)
\* re.sub(r'[\'"][^"\']+[\'"]', '"{value}"', s)
SubQuoted(s) == SubQuotedFrom(s, 1)

RECURSIVE SubNumbersFrom(_, _)
SubNumbersFrom(s, i) ==
  IF i > Len(s) THEN ""
  ELSE IF Char(s, i) \in Digits
       THEN LET e == RunEnd(s, i, Digits)
            IN (IF e - i + 1 >= MinDigits THEN "{number}" ELSE SubSeq(s, i, e))
               \o SubNumbersFrom(s, e + 1)
       ELSE Char(s, i) \o SubNumbersFrom(s, i + 1)
\* re.sub(r'\d{4,}', '{number}', s)
SubNumbers(s) == SubNumbersFrom(s, 1)

\* the normalized key of _learn_step
Normalize(s) == SubNumbers(SubQuoted(s))

\* dict.get(k, 0)
Get0(d, k) == IF k \in DOMAIN d THEN d[k] ELSE 0

\* d[k] = v
DictSet(d, k, v) == [x \in DOMAIN d \cup {k} |-> IF x = k THEN v ELSE d[x]]

\* d.update(e)
DictUpdate(d, e) == [x \in DOMAIN d \cup DOMAIN e |-> IF x \in DOMAIN e THEN e[x] ELSE d[x]]

\* a _learn_step that stores 1 for the pattern whatever its count was
_learn_step_overwriting(sp, s) == DictSet(sp, Normalize(s), 1)
\* a _learn_step that counts the step as written
_learn_step_as_written(sp, s) == DictSet(sp, s, Get0(sp, s) + 1)

\* step_patterns after self._learn_step(s)
_learn_step(sp, s) == DictSet(sp, Normalize(s), Get0(sp, Normalize(s)) + 1)

\* kb.learned_patterns after self._update_knowledge_base(analysis)
_update_knowledge_base(lp, sp, an) ==
  [steps |-> DictUpdate(IF "steps" \in DOMAIN lp THEN lp["steps"] ELSE <<>>, sp),
   templates_used |->
     Extend(IF "templates_used" \in DOMAIN lp THEN lp["templates_used"] ELSE <<>>,
            an.templates_used),
   response_codes_used |->
     Extend(IF "response_codes_used" \in DOMAIN lp THEN lp["response_codes_used"] ELSE <<>>,
            an.response_codes_used)]

RECURSIVE FindTagsFrom(_, _)
FindTagsFrom(s, i) ==
  IF i > Len(s) THEN <<>>
  ELSE IF Char(s, i) = "@" /\ i + 1 <= Len(s) /\ Char(s, i + 1) \in WordChars
       THEN LET e == RunEnd(s, i + 1, WordChars \cup {"-"})
            IN <<SubSeq(s, i + 1, e)>> \o FindTagsFrom(s, e + 1)
       ELSE FindTagsFrom(s, i + 1)
\* re.findall(r'@(\w+[-\w]*)', s)
FindTags(s) == FindTagsFrom(s, 1)

StepKeywords == {"* ", "Given ", "When ", "Then ", "And ", "But "}
\* re.match(r'^\* |^Given |^When |^Then |^And |^But ', s)
IsStep(s) == \E kw \in StepKeywords : StartsWith(s, kw)

\* re.search(r'\* def (\w+)', s): the group of the leftmost match, <<>> when none
VarMatch(s) ==
  LET at == {i \in 1..Len(s) : MatchAt(s, i, "* def ") /\ i + 6 <= Len(s)
                                 /\ Char(s, i + 6) \in WordChars}
  IN IF at = {} THEN <<>>
     ELSE LET i == CHOOSE i \in at : \A j \in at : i <= j
          IN <<SubSeq(s, i + 6, RunEnd(s, i + 6, WordChars))>>

\* the group of templateName\s*=\s*['"]([^'"]+)['"] matched at i, <<>> when no match at i
TemplateMatchAt(s, i) ==
  IF ~MatchAt(s, i, "templateName") THEN <<>>
  ELSE LET j == RunEnd(s, i + 12, Whitespace) + 1
           k == RunEnd(s, j + 1, Whitespace) + 1
           e == RunEndNot(s, k + 1, Quotes)
       IN IF /\ j <= Len(s) /\ Char(s, j) = "="
             /\ k <= Len(s) /\ Char(s, k) \in Quotes
             /\ e >= k + 1 /\ e + 1 <= Len(s)
          THEN <<SubSeq(s, k + 1, e)>>
          ELSE <<>>

\* re.search(r"templateName\s*=\s*['\"]([^'\"]+)['\"]", s)
TemplateMatch(s) ==
  LET at == {i \in 1..Len(s) : TemplateMatchAt(s, i) # <<>>}
  IN IF at = {} THEN <<>> ELSE TemplateMatchAt(s, CHOOSE i \in at : \A j \in at : i <= j)

\* the group of DE39['"]?\s*==\s*['"]?(\d{2})['"]? matched at i, <<>> when no match at i
RcMatchAt(s, i) ==
  IF ~MatchAt(s, i, "DE39") THEN <<>>
  ELSE LET a == IF i + 4 <= Len(s) /\ Char(s, i + 4) \in Quotes THEN i + 5 ELSE i + 4
           b == RunEnd(s, a, Whitespace) + 1
           c == RunEnd(s, b + 2, Whitespace) + 1
           d == IF c <= Len(s) /\ Char(s, c) \in Quotes THEN c + 1 ELSE c
       IN IF /\ MatchAt(s, b, "==")
             /\ d + 1 <= Len(s) /\ Char(s, d) \in Digits /\ Char(s, d + 1) \in Digits
          THEN <<SubSeq(s, d, d + 1)>>
          ELSE <<>>

\* re.search(r"DE39['\"]?\s*==\s*['\"]?(\d{2})['\"]?", s)
RcMatch(s) ==
  LET at == {i \in 1..Len(s) : RcMatchAt(s, i) # <<>>}
  IN IF at = {} THEN <<>> ELSE RcMatchAt(s, CHOOSE i \in at : \A j \in at : i <= j)

IsFeatureLine(s) == StartsWith(s, "Feature:")
IsTagLine(s) == StartsWith(s, "@")
IsBackgroundHeader(s) == StartsWith(s, "Background:")
IsScenarioHeader(s) == StartsWith(s, "Scenario:") \/ StartsWith(s, "Scenario Outline:")

\* the analysis dict analyze starts from
NewAnalysis(filename) ==
  [filename |-> filename, feature_name |-> "", tags |-> <<>>, backgrounds |-> <<>>,
   scenarios |-> <<>>, steps |-> <<>>, variables |-> <<>>, sql_queries |-> <<>>,
   calls |-> <<>>, templates_used |-> <<>>, response_codes_used |-> <<>>]

\* the loop body of analyze from `if current_section:` on, for the stripped line s
SectionBody(an, cc, sp, sec, s) ==
  IF sec = "None"
  THEN [analysis |-> an, current_content |-> cc, step_patterns |-> sp]
  ELSE [analysis |->
          [an EXCEPT !.steps = IF IsStep(s) THEN Append(@, s) ELSE @,
                     !.variables = Extend(@, VarMatch(s)),
                     !.sql_queries = IF Contains(Upper(s), "SELECT") \/ Contains(Lower(s), "query")
                                     THEN Append(@, s) ELSE @,
                     !.calls = IF Contains(s, "call read") THEN Append(@, s) ELSE @,
                     !.templates_used = Extend(@, TemplateMatch(s)),
                     !.response_codes_used = Extend(@, RcMatch(s))],
        current_content |-> IF sec = "background" THEN Append(cc, s) ELSE cc,
        step_patterns |-> IF IsStep(s) THEN _learn_step(sp, s) ELSE sp]

\* the stripped line the loop is at
Stripped == Strip(lines[pos])

\* analyze(content, filename): the call starts
AnalyzeBegin(c, filename) ==
  /\ pc = "idle"
  /\ pc' = "loop"
  /\ content' = c
  /\ lines' = Split(c, "\n")
  /\ pos' = 1
  /\ analysis' = NewAnalysis(filename)
  /\ current_section' = "None"
  /\ current_content' = <<>>
  /\ current_tags' = <<>>
  /\ UNCHANGED <<analyzerVars, kbVars, logVars, genVars, learnVars, ioVars>>

\* one iteration on a line starting with 'Feature:'
ReadFeatureLine ==
  /\ pc = "loop" /\ pos <= Len(lines) /\ IsFeatureLine(Stripped)
  /\ LET an == [analysis EXCEPT !.feature_name = Strip(Replace(Stripped, "Feature:", ""))]
         r == SectionBody(an, current_content, step_patterns, current_section, Stripped)
     IN /\ analysis' = r.analysis
        /\ current_content' = r.current_content
        /\ step_patterns' = r.step_patterns
  /\ pos' = pos + 1
  /\ UNCHANGED <<pc, content, lines, current_section, current_tags, analyzed_files,
                 scenario_patterns, kbVars, logVars, genVars, learnVars, ioVars>>

\* one iteration on a line starting with '@'
ReadTagLine ==
  /\ pc = "loop" /\ pos <= Len(lines) /\ IsTagLine(Stripped)
  /\ LET tags == FindTags(Stripped)
         an == [analysis EXCEPT !.tags = Extend(@, tags)]
         r == SectionBody(an, current_content, step_patterns, current_section, Stripped)
     IN /\ current_tags' = tags
        /\ analysis' = r.analysis
        /\ current_content' = r.current_content
        /\ step_patterns' = r.step_patterns
  /\ pos' = pos + 1
  /\ UNCHANGED <<pc, content, lines, current_section, analyzed_files,
                 scenario_patterns, kbVars, logVars, genVars, learnVars, ioVars>>

\* one iteration on a line starting with 'Background:'
ReadBackgroundHeader ==
  /\ pc = "loop" /\ pos <= Len(lines) /\ IsBackgroundHeader(Stripped)
  /\ current_section' = "background"
  /\ current_content' = <<>>
  /\ pos' = pos + 1
  /\ UNCHANGED <<pc, content, lines, analysis, current_tags, analyzerVars, kbVars,
                 logVars, genVars, learnVars, ioVars>>

\* one iteration on a line starting with 'Scenario:' or 'Scenario Outline:'
ReadScenarioHeader ==
  /\ pc = "loop" /\ pos <= Len(lines) /\ IsScenarioHeader(Stripped)
  /\ analysis' = IF current_section = "background" /\ Len(current_content) > 0
                 THEN [analysis EXCEPT !.backgrounds = Append(@, Join(current_content, "\n"))]
                 ELSE analysis
  /\ current_section' = "scenario"
  /\ current_content' = << <<Stripped, current_tags>> >>
  /\ current_tags' = <<>>
  /\ pos' = pos + 1
  /\ UNCHANGED <<pc, content, lines, analyzerVars, kbVars, logVars, genVars, learnVars, ioVars>>

\* one iteration on any other line
ReadOtherLine ==
  /\ pc = "loop" /\ pos <= Len(lines)
  /\ ~IsFeatureLine(Stripped) /\ ~IsTagLine(Stripped)
  /\ ~IsBackgroundHeader(Stripped) /\ ~IsScenarioHeader(Stripped)
  /\ LET r == SectionBody(analysis, current_content, step_patterns, current_section, Stripped)
     IN /\ analysis' = r.analysis
        /\ current_content' = r.current_content
        /\ step_patterns' = r.step_patterns
  /\ pos' = pos + 1
  /\ UNCHANGED <<pc, content, lines, current_section, current_tags, analyzed_files,
                 scenario_patterns, kbVars, logVars, genVars, learnVars, ioVars>>

\* the analysis analyze returns once the loop has ended
FinalAnalysis ==
  IF current_section = "scenario" /\ Len(current_content) > 0
  THEN [analysis EXCEPT !.scenarios =
          Append(@, [content |-> current_content, tags |-> current_tags])]
  ELSE analysis

\* an end of analyze that also files the scenarios it read as custom scenarios
AnalyzeEnd_filing_scenarios ==
  /\ pc = "loop" /\ pos > Len(lines)
  /\ analysis' = FinalAnalysis
  /\ analyzed_files' = Append(analyzed_files, FinalAnalysis)
  /\ learned_patterns' = _update_knowledge_base(learned_patterns, step_patterns, FinalAnalysis)
  /\ custom_scenarios' = Extend(custom_scenarios, FinalAnalysis.scenarios)
  /\ returned' = FinalAnalysis
  /\ docs' = Append(docs, content)
  /\ pattern_log' = Append(pattern_log, step_patterns)
  /\ pc' = "idle"
  /\ UNCHANGED <<content, lines, pos, current_section, current_content, current_tags,
                 step_patterns, scenario_patterns, templates, response_codes, field_definitions,
                 sql_tables, genVars, learnVars, ioVars>>

\* the end of analyze: store the last scenario, record the file, update the knowledge base
AnalyzeEnd ==
  /\ pc = "loop" /\ pos > Len(lines)
  /\ analysis' = FinalAnalysis
  /\ analyzed_files' = Append(analyzed_files, FinalAnalysis)
  /\ learned_patterns' = _update_knowledge_base(learned_patterns, step_patterns, FinalAnalysis)
  /\ returned' = FinalAnalysis
  /\ docs' = Append(docs, content)
  /\ pattern_log' = Append(pattern_log, step_patterns)
  /\ pc' = "idle"
  /\ UNCHANGED <<content, lines, pos, current_section, current_content, current_tags,
                 step_patterns, scenario_patterns, templates, response_codes, field_definitions,
                 sql_tables, custom_scenarios, genVars, learnVars, ioVars>>

----------------------------------------------------------------------------
\* KnowledgeBase: a dict is the sequence of its items [k, v] in insertion order

\* KnowledgeBase._load_default_templates: the dict in insertion order
DefaultTemplates ==
  <<
    [k |-> "visa_purchase_0100",
     v |-> [id |-> "visa_purchase_0100", name |-> "fwd_visasig_direct_purchase_0100",
            description |-> "Visa Signature Direct Purchase", category |-> "purchase",
            card_network |-> "visa", message_type |-> "0100",
            processing_code |-> "000000",
            fields |-> [DMTI |-> "0100", DE2 |-> "4144779500060809", DE3 |-> "000000",
              DE4 |-> "000000000700", DE11 |-> "{stan}", DE14 |-> "2512", DE18 |-> "3535",
              DE22 |-> "900", DE32 |-> "59000000754",
              DE35 |-> "4144779500060809D251210112345129", DE37 |-> "{rrn}",
              DE41 |-> "TERMID01", DE42 |-> "MERCHANT01",
              DE43 |-> "Test Merchant Location"],
            tags |-> <<"visa", "purchase", "signature", "pos">>]],
    [k |-> "mastercard_purchase_0100",
     v |-> [id |-> "mastercard_purchase_0100", name |-> "fwd_mastercard_purchase_0100",
            description |-> "MasterCard Purchase Authorization", category |-> "purchase",
            card_network |-> "mastercard", message_type |-> "0100",
            processing_code |-> "000000",
            fields |-> [DMTI |-> "0100", DE2 |-> "5500000000000004", DE3 |-> "000000",
              DE4 |-> "000000001000", DE11 |-> "{stan}", DE14 |-> "2512", DE18 |-> "5411",
              DE22 |-> "051", DE37 |-> "{rrn}", DE41 |-> "TERMID02",
              DE42 |-> "MC_MERCHANT"],
            tags |-> <<"mastercard", "purchase", "pos">>]],
    [k |-> "visa_atm_withdrawal_0100",
     v |-> [id |-> "visa_atm_withdrawal_0100", name |-> "fwd_visa_atm_withdrawal_0100",
            description |-> "Visa ATM Cash Withdrawal", category |-> "withdrawal",
            card_network |-> "visa", message_type |-> "0100",
            processing_code |-> "010000",
            fields |-> [DMTI |-> "0100", DE2 |-> "4111111111111111", DE3 |-> "010000",
              DE4 |-> "000000005000", DE11 |-> "{stan}", DE14 |-> "2512", DE18 |-> "6011",
              DE22 |-> "051", DE37 |-> "{rrn}", DE41 |-> "ATM00001",
              DE42 |-> "BANK_ATM_01"],
            tags |-> <<"visa", "atm", "withdrawal", "cash">>]],
    [k |-> "visa_refund_0100",
     v |-> [id |-> "visa_refund_0100", name |-> "fwd_visa_refund_0100",
            description |-> "Visa Refund/Credit", category |-> "refund",
            card_network |-> "visa", message_type |-> "0100",
            processing_code |-> "200000",
            fields |-> [DMTI |-> "0100", DE2 |-> "4144779500060809", DE3 |-> "200000",
              DE4 |-> "000000000500", DE11 |-> "{stan}", DE14 |-> "2512",
              DE37 |-> "{rrn}", DE41 |-> "TERMID01", DE42 |-> "MERCHANT01"],
            tags |-> <<"visa", "refund", "credit">>]],
    [k |-> "visa_reversal_0400",
     v |-> [id |-> "visa_reversal_0400", name |-> "fwd_visa_reversal_0400",
            description |-> "Visa Reversal", category |-> "reversal",
            card_network |-> "visa", message_type |-> "0400",
            processing_code |-> "000000",
            fields |-> [DMTI |-> "0400", DE2 |-> "4144779500060809", DE3 |-> "000000",
              DE4 |-> "000000000700", DE11 |-> "{stan}", DE14 |-> "2512",
              DE37 |-> "{rrn}", DE41 |-> "TERMID01", DE90 |-> "{original_data}"],
            tags |-> <<"visa", "reversal", "void">>]],
    [k |-> "visa_balance_inquiry_0100",
     v |-> [id |-> "visa_balance_inquiry_0100", name |-> "fwd_visa_balance_inquiry_0100",
            description |-> "Visa Balance Inquiry", category |-> "balance",
            card_network |-> "visa", message_type |-> "0100",
            processing_code |-> "310000",
            fields |-> [DMTI |-> "0100", DE2 |-> "4144779500060809", DE3 |-> "310000",
              DE4 |-> "000000000000", DE11 |-> "{stan}", DE14 |-> "2512",
              DE37 |-> "{rrn}", DE41 |-> "ATM00001"],
            tags |-> <<"visa", "balance", "inquiry", "atm">>]],
    [k |-> "mastercard_cashback_0100",
     v |-> [id |-> "mastercard_cashback_0100", name |-> "fwd_mastercard_cashback_0100",
            description |-> "MasterCard Purchase with Cashback", category |-> "cashback",
            card_network |-> "mastercard", message_type |-> "0100",
            processing_code |-> "090000",
            fields |-> [DMTI |-> "0100", DE2 |-> "5500000000000004", DE3 |-> "090000",
              DE4 |-> "000000015000", DE11 |-> "{stan}", DE14 |-> "2512", DE18 |-> "5411",
              DE37 |-> "{rrn}", DE41 |-> "TERMID02", DE54 |-> "000000005000"],
            tags |-> <<"mastercard", "cashback", "purchase">>]]
  >>

\* KnowledgeBase._load_default_response_codes: the dict in insertion order
DefaultResponseCodes ==
  <<
    [k |-> "00",
     v |-> [code |-> "00", message |-> "Approved", category |-> "approved",
            trigger_field |-> "", trigger_value |-> ""]],
    [k |-> "01",
     v |-> [code |-> "01", message |-> "Refer to Issuer", category |-> "declined",
            trigger_field |-> "", trigger_value |-> ""]],
    [k |-> "05",
     v |-> [code |-> "05", message |-> "Do Not Honor", category |-> "declined",
            trigger_field |-> "DE2", trigger_value |-> "4111111111111114"]],
    [k |-> "14",
     v |-> [code |-> "14", message |-> "Invalid Card Number", category |-> "declined",
            trigger_field |-> "DE2", trigger_value |-> "1234567890123456"]],
    [k |-> "51",
     v |-> [code |-> "51", message |-> "Insufficient Funds", category |-> "declined",
            trigger_field |-> "DE4", trigger_value |-> "999999999999"]],
    [k |-> "54",
     v |-> [code |-> "54", message |-> "Expired Card", category |-> "declined",
            trigger_field |-> "DE14", trigger_value |-> "2001"]],
    [k |-> "55",
     v |-> [code |-> "55", message |-> "Invalid PIN", category |-> "declined",
            trigger_field |-> "DE52", trigger_value |-> ""]],
    [k |-> "61",
     v |-> [code |-> "61", message |-> "Exceeds Withdrawal Limit",
            category |-> "declined", trigger_field |-> "DE4",
            trigger_value |-> "500000000000"]],
    [k |-> "62",
     v |-> [code |-> "62", message |-> "Restricted Card", category |-> "declined",
            trigger_field |-> "DE2", trigger_value |-> "4111111111111113"]],
    [k |-> "65",
     v |-> [code |-> "65", message |-> "Activity Limit Exceeded", category |-> "declined",
            trigger_field |-> "", trigger_value |-> ""]],
    [k |-> "75",
     v |-> [code |-> "75", message |-> "PIN Tries Exceeded", category |-> "declined",
            trigger_field |-> "", trigger_value |-> ""]],
    [k |-> "91",
     v |-> [code |-> "91", message |-> "Issuer Unavailable", category |-> "error",
            trigger_field |-> "", trigger_value |-> ""]],
    [k |-> "96",
     v |-> [code |-> "96", message |-> "System Malfunction", category |-> "error",
            trigger_field |-> "", trigger_value |-> ""]]
  >>

\* KnowledgeBase._load_default_fields: the dict in insertion order
DefaultFieldDefinitions ==
  <<
    [k |-> "DMTI",
     v |-> [id |-> "DMTI", name |-> "Message Type Indicator",
            description |-> "Message type", data_type |-> "numeric", length |-> 4,
            format |-> "", example |-> "0100"]],
    [k |-> "DE2",
     v |-> [id |-> "DE2", name |-> "Primary Account Number",
            description |-> "Card number", data_type |-> "numeric", length |-> 19,
            format |-> "", example |-> "4144779500060809"]],
    [k |-> "DE3",
     v |-> [id |-> "DE3", name |-> "Processing Code",
            description |-> "Transaction type code", data_type |-> "numeric",
            length |-> 6, format |-> "TTAABB", example |-> "000000"]],
    [k |-> "DE4",
     v |-> [id |-> "DE4", name |-> "Transaction Amount",
            description |-> "Amount in cents", data_type |-> "numeric", length |-> 12,
            format |-> "", example |-> "000000000700"]],
    [k |-> "DE7",
     v |-> [id |-> "DE7", name |-> "Transmission Date/Time",
            description |-> "Date and time", data_type |-> "numeric", length |-> 10,
            format |-> "MMDDhhmmss", example |-> ""]],
    [k |-> "DE11",
     v |-> [id |-> "DE11", name |-> "System Trace Audit Number",
            description |-> "Unique trace number", data_type |-> "numeric", length |-> 6,
            format |-> "", example |-> "001234"]],
    [k |-> "DE12",
     v |-> [id |-> "DE12", name |-> "Local Transaction Time",
            description |-> "Time of transaction", data_type |-> "numeric", length |-> 6,
            format |-> "hhmmss", example |-> ""]],
    [k |-> "DE13",
     v |-> [id |-> "DE13", name |-> "Local Transaction Date",
            description |-> "Date of transaction", data_type |-> "numeric", length |-> 4,
            format |-> "MMDD", example |-> ""]],
    [k |-> "DE14",
     v |-> [id |-> "DE14", name |-> "Expiration Date", description |-> "Card expiry",
            data_type |-> "numeric", length |-> 4, format |-> "YYMM", example |-> "2512"]],
    [k |-> "DE18",
     v |-> [id |-> "DE18", name |-> "Merchant Category Code", description |-> "MCC",
            data_type |-> "numeric", length |-> 4, format |-> "", example |-> "5411"]],
    [k |-> "DE22",
     v |-> [id |-> "DE22", name |-> "Point of Service Entry Mode",
            description |-> "How card was read", data_type |-> "numeric", length |-> 3,
            format |-> "", example |-> "051"]],
    [k |-> "DE32",
     v |-> [id |-> "DE32", name |-> "Acquiring Institution ID",
            description |-> "Acquirer ID", data_type |-> "numeric", length |-> 11,
            format |-> "", example |-> ""]],
    [k |-> "DE35",
     v |-> [id |-> "DE35", name |-> "Track 2 Data",
            description |-> "Magnetic stripe data", data_type |-> "alphanumeric",
            length |-> 37, format |-> "", example |-> ""]],
    [k |-> "DE37",
     v |-> [id |-> "DE37", name |-> "Retrieval Reference Number", description |-> "RRN",
            data_type |-> "alphanumeric", length |-> 12, format |-> "",
            example |-> "024405001234"]],
    [k |-> "DE38",
     v |-> [id |-> "DE38", name |-> "Authorization ID", description |-> "Approval code",
            data_type |-> "alphanumeric", length |-> 6, format |-> "",
            example |-> "ABC123"]],
    [k |-> "DE39",
     v |-> [id |-> "DE39", name |-> "Response Code", description |-> "Transaction result",
            data_type |-> "numeric", length |-> 2, format |-> "", example |-> "00"]],
    [k |-> "DE41",
     v |-> [id |-> "DE41", name |-> "Terminal ID",
            description |-> "Card acceptor terminal", data_type |-> "alphanumeric",
            length |-> 8, format |-> "", example |-> "TERMID01"]],
    [k |-> "DE42",
     v |-> [id |-> "DE42", name |-> "Merchant ID", description |-> "Card acceptor ID",
            data_type |-> "alphanumeric", length |-> 15, format |-> "",
            example |-> "MERCHANT01"]],
    [k |-> "DE43",
     v |-> [id |-> "DE43", name |-> "Merchant Name/Location",
            description |-> "Merchant details", data_type |-> "alphanumeric",
            length |-> 40, format |-> "", example |-> ""]],
    [k |-> "DE49",
     v |-> [id |-> "DE49", name |-> "Currency Code",
            description |-> "Transaction currency", data_type |-> "numeric", length |-> 3,
            format |-> "", example |-> "840"]],
    [k |-> "DE52",
     v |-> [id |-> "DE52", name |-> "PIN Data", description |-> "Encrypted PIN",
            data_type |-> "binary", length |-> 8, format |-> "", example |-> ""]],
    [k |-> "DE54",
     v |-> [id |-> "DE54", name |-> "Additional Amounts",
            description |-> "Cashback, etc.", data_type |-> "alphanumeric",
            length |-> 120, format |-> "", example |-> ""]],
    [k |-> "DE55",
     v |-> [id |-> "DE55", name |-> "ICC Data", description |-> "EMV chip data",
            data_type |-> "binary", length |-> 999, format |-> "", example |-> ""]]
  >>

\* KnowledgeBase._load_default_sql_tables: the dict in insertion order
DefaultSqlTables ==
  <<
    [k |-> "PPH_TRAN",
     v |-> [name |-> "PPH_TRAN", description |-> "Primary Payment Hub Transaction Table",
            columns |-> [TRAN_ID |-> [type |-> "VARCHAR2(36)", desc |-> "Transaction UUID"],
              MSG_TYPE |-> [type |-> "VARCHAR2(4)", desc |-> "Message Type"],
              PAN |-> [type |-> "VARCHAR2(19)", desc |-> "Masked PAN"],
              PROC_CODE |-> [type |-> "VARCHAR2(6)", desc |-> "Processing Code"],
              TXN_AMT |-> [type |-> "NUMBER(15,2)", desc |-> "Amount"],
              STAN |-> [type |-> "VARCHAR2(6)", desc |-> "STAN"],
              RRN |-> [type |-> "VARCHAR2(12)", desc |-> "RRN"],
              AUTH_CODE |-> [type |-> "VARCHAR2(6)", desc |-> "Auth Code"],
              RESP_CODE |-> [type |-> "VARCHAR2(2)", desc |-> "Response Code"],
              TERM_ID |-> [type |-> "VARCHAR2(8)", desc |-> "Terminal ID"],
              MERCHANT_ID |-> [type |-> "VARCHAR2(15)", desc |-> "Merchant ID"],
              TXN_STATUS |-> [type |-> "VARCHAR2(20)", desc |-> "Status"],
              CREATED_DT |-> [type |-> "TIMESTAMP", desc |-> "Created Date"]],
            key_columns |-> <<"RRN", "STAN">>]],
    [k |-> "PPDSVA",
     v |-> [name |-> "PPDSVA",
            description |-> "Payment Processing Data Store - Value Added",
            columns |-> [SVA_ID |-> [type |-> "VARCHAR2(36)", desc |-> "SVA Record ID"],
              TRAN_ID |-> [type |-> "VARCHAR2(36)", desc |-> "Transaction ID"],
              RRN |-> [type |-> "VARCHAR2(12)", desc |-> "RRN"],
              STAN |-> [type |-> "VARCHAR2(6)", desc |-> "STAN"],
              NETWORK_ID |-> [type |-> "VARCHAR2(10)", desc |-> "Network"],
              RISK_SCORE |-> [type |-> "NUMBER(5,2)", desc |-> "Risk Score"],
              FRAUD_CHECK |-> [type |-> "VARCHAR2(10)", desc |-> "Fraud Result"],
              HOST_RESP_CODE |-> [type |-> "VARCHAR2(4)", desc |-> "Host Response"],
              PROCESS_TIME_MS |-> [type |-> "NUMBER(10)", desc |-> "Process Time"]],
            key_columns |-> <<"RRN", "STAN">>]]
  >>

Keys(od) == {od[i].k : i \in 1..Len(od)}

\* od.values()
Values(od) == [i \in 1..Len(od) |-> od[i].v]

\* od[key]
OdGet(od, key) == od[CHOOSE i \in 1..Len(od) : od[i].k = key].v

\* od[key] = val: an existing key keeps its place, a new key goes last
OdSet(od, key, val) ==
  IF key \in Keys(od)
  THEN [i \in 1..Len(od) |-> IF od[i].k = key THEN [k |-> key, v |-> val] ELSE od[i]]
  ELSE Append(od, [k |-> key, v |-> val])

\* KnowledgeBase.add_template
add_template(ts, t) == OdSet(ts, t.id, t)

\* KnowledgeBase.add_response_code
add_response_code(rcs, rc) == OdSet(rcs, rc.code, rc)

\* KnowledgeBase.add_sql_table
add_sql_table(tabs, t) == OdSet(tabs, t.name, t)

\* KnowledgeBase.add_custom_scenario
add_custom_scenario(cs, scenario) == Append(cs, scenario)

----------------------------------------------------------------------------
\* KnowledgeBase.export_to_json and import_from_json.  A JSON text is
\* [wellformed |-> FALSE], on which json.loads raises JSONDecodeError, or
\* [wellformed |-> TRUE, data |-> d] with d the object json.loads returns: a JSON
\* object is a dict (items [k, v] in order), a JSON array a sequence.

\* the fields of the dataclasses, in declaration order, and those without a default
TemplateFieldNames ==
  <<"id", "name", "description", "category", "card_network", "message_type",
    "processing_code", "fields", "tags">>
TemplateRequired ==
  {"id", "name", "description", "category", "card_network", "message_type", "processing_code"}
ResponseCodeFieldNames == <<"code", "message", "category", "trigger_field", "trigger_value">>
ResponseCodeRequired == {"code", "message", "category"}

\* asdict(template) without the tags
to_dict_without_tags(t) ==
  [i \in 1..(Len(TemplateFieldNames) - 1) |->
     [k |-> TemplateFieldNames[i], v |-> t[TemplateFieldNames[i]]]]
\* TransactionTemplate.to_dict: asdict(self), the fields in declaration order
to_dict(t) ==
  [i \in 1..Len(TemplateFieldNames) |->
     [k |-> TemplateFieldNames[i], v |-> t[TemplateFieldNames[i]]]]

\* asdict(rc)
asdict(rc) ==
  [i \in 1..Len(ResponseCodeFieldNames) |->
     [k |-> ResponseCodeFieldNames[i], v |-> rc[ResponseCodeFieldNames[i]]]]

\* a keyword argument, or the default of its field
KwGet(kw, key, default) == IF key \in Keys(kw) THEN OdGet(kw, key) ELSE default

\* the call binds: no unexpected keyword, no required argument missing
KwBinds(kw, names, required) == Keys(kw) \subseteq SeqToSet(names) /\ required \subseteq Keys(kw)

\* TransactionTemplate(**kw): <<template>>, or <<>> when the call raises TypeError
TransactionTemplate(kw) ==
  IF KwBinds(kw, TemplateFieldNames, TemplateRequired)
  THEN <<[id |-> OdGet(kw, "id"), name |-> OdGet(kw, "name"),
          description |-> OdGet(kw, "description"), category |-> OdGet(kw, "category"),
          card_network |-> OdGet(kw, "card_network"),
          message_type |-> OdGet(kw, "message_type"),
          processing_code |-> OdGet(kw, "processing_code"),
          fields |-> KwGet(kw, "fields", <<>>), tags |-> KwGet(kw, "tags", <<>>)]>>
  ELSE <<>>

\* ResponseCode(**kw): <<response code>>, or <<>> when the call raises TypeError
ResponseCode(kw) ==
  IF KwBinds(kw, ResponseCodeFieldNames, ResponseCodeRequired)
  THEN <<[code |-> OdGet(kw, "code"), message |-> OdGet(kw, "message"),
          category |-> OdGet(kw, "category"),
          trigger_field |-> KwGet(kw, "trigger_field", ""),
          trigger_value |-> KwGet(kw, "trigger_value", "")]>>
  ELSE <<>>

\* export_to_json: the text json.dumps returns
export_to_json(ts, rcs, cs, lp) ==
  [wellformed |-> TRUE,
   data |-> [templates |-> [i \in 1..Len(ts) |-> [k |-> ts[i].k, v |-> to_dict(ts[i].v)]],
             response_codes |-> [i \in 1..Len(rcs) |-> [k |-> rcs[i].k, v |-> asdict(rcs[i].v)]],
             custom_scenarios |-> cs,
             learned_patterns |-> lp]]

\* the loop over data["templates"].items() from item i on: the dict it leaves and
\* the exception that ended it
RECURSIVE ImportTemplates(_, _, _)
ImportTemplates(ts, items, i) ==
  IF i > Len(items) THEN [dict |-> ts, raised |-> "None"]
  ELSE LET made == TransactionTemplate(items[i].v)
       IN IF made = <<>> THEN [dict |-> ts, raised |-> "TypeError"]
          ELSE ImportTemplates(OdSet(ts, items[i].k, made[1]), items, i + 1)

\* the loop over data["response_codes"].items() from item i on
RECURSIVE ImportResponseCodes(_, _, _)
ImportResponseCodes(rcs, items, i) ==
  IF i > Len(items) THEN [dict |-> rcs, raised |-> "None"]
  ELSE LET made == ResponseCode(items[i].v)
       IN IF made = <<>> THEN [dict |-> rcs, raised |-> "TypeError"]
          ELSE ImportResponseCodes(OdSet(rcs, items[i].k, made[1]), items, i + 1)

\* an import that replaces the dicts by the entries of the text
import_from_json_replacing(ts, rcs, cs, text) ==
  IF ~text.wellformed
  THEN [templates |-> ts, response_codes |-> rcs, custom_scenarios |-> cs,
        raised |-> "JSONDecodeError"]
  ELSE LET data == text.data
           t == IF "templates" \in DOMAIN data
                THEN ImportTemplates(<<>>, data.templates, 1)
                ELSE [dict |-> ts, raised |-> "None"]
           r == IF t.raised = "None" /\ "response_codes" \in DOMAIN data
                THEN ImportResponseCodes(<<>>, data.response_codes, 1)
                ELSE [dict |-> rcs, raised |-> t.raised]
       IN [templates |-> t.dict, response_codes |-> r.dict,
           custom_scenarios |->
             IF r.raised = "None" /\ "custom_scenarios" \in DOMAIN data
             THEN Extend(cs, data.custom_scenarios) ELSE cs,
           raised |-> r.raised]
\* import_from_json(text) on the dicts ts, rcs and the list cs: what they are when the
\* call ends, and the exception it raised
import_from_json(ts, rcs, cs, text) ==
  IF ~text.wellformed
  THEN [templates |-> ts, response_codes |-> rcs, custom_scenarios |-> cs,
        raised |-> "JSONDecodeError"]
  ELSE LET data == text.data
           t == IF "templates" \in DOMAIN data
                THEN ImportTemplates(ts, data.templates, 1)
                ELSE [dict |-> ts, raised |-> "None"]
           r == IF t.raised = "None" /\ "response_codes" \in DOMAIN data
                THEN ImportResponseCodes(rcs, data.response_codes, 1)
                ELSE [dict |-> rcs, raised |-> t.raised]
       IN [templates |-> t.dict, response_codes |-> r.dict,
           custom_scenarios |->
             IF r.raised = "None" /\ "custom_scenarios" \in DOMAIN data
             THEN Extend(cs, data.custom_scenarios) ELSE cs,
           raised |-> r.raised]

----------------------------------------------------------------------------
\* TestGenerator._parse_prompt

\* any(w in text for w in ws)
AnyIn(text, ws) == \E i \in 1..Len(ws) : Contains(text, ws[i])

RECURSIVE SplitWordsFrom(_, _)
SplitWordsFrom(s, i) ==
  IF i > Len(s) THEN <<>>
  ELSE IF Char(s, i) \in Whitespace THEN SplitWordsFrom(s, i + 1)
  ELSE LET e == RunEndNot(s, i, Whitespace)
       IN <<SubSeq(s, i, e)>> \o SplitWordsFrom(s, e + 1)
\* str.split() without a separator
SplitWords(s) == SplitWordsFrom(s, 1)

\* the keyword tables, in the order the dict literals list them
transaction_keywords ==
  << [k |-> "withdrawal", v |-> <<"withdraw", "atm", "cash out">>],
     [k |-> "refund", v |-> <<"refund", "credit", "return">>],
     [k |-> "reversal", v |-> <<"reversal", "void", "cancel">>],
     [k |-> "balance", v |-> <<"balance", "inquiry">>],
     [k |-> "cashback", v |-> <<"cashback", "cash back">>],
     [k |-> "purchase", v |-> <<"purchase", "buy", "payment", "sale">>] >>

network_keywords ==
  << [k |-> "mastercard", v |-> <<"mastercard", "mc", "master card">>],
     [k |-> "amex", v |-> <<"amex", "american express">>],
     [k |-> "discover", v |-> <<"discover">>],
     [k |-> "visa", v |-> <<"visa">>] >>

\* a loop without the break: the last entry with a keyword in the text is taken
LastKeyword(table, text, default) ==
  LET hits == {i \in 1..Len(table) : AnyIn(text, table[i].v)}
  IN IF hits = {} THEN default
     ELSE table[CHOOSE i \in hits : \A j \in hits : j <= i].k
\* for key, keywords in table.items(): if any(kw in text ...): take key; break
FirstKeyword(table, text, default) ==
  LET hits == {i \in 1..Len(table) : AnyIn(text, table[i].v)}
  IN IF hits = {} THEN default
     ELSE table[CHOOSE i \in hits : \A j \in hits : i <= j].k

\* the condition of the decline-reason loop on one response code
RcMentioned(rc, text) ==
  \E m \in {Lower(rc.message)} : Contains(text, m) \/ AnyIn(text, SplitWords(m))

\* a decline-reason loop that binds the first response code mentioned, of any category
BindAnyReason(rcs, text) ==
  LET hits == {i \in 1..Len(rcs) : RcMentioned(rcs[i].v, text)}
  IN IF hits = {} THEN <<>>
     ELSE <<rcs[CHOOSE i \in hits : \A j \in hits : i <= j].v>>
\* the decline-reason loop: <<rc>> for the response code it binds, <<>> when it binds none
BindDeclineReason(rcs, text) ==
  LET hits == {i \in 1..Len(rcs) : RcMentioned(rcs[i].v, text) /\ rcs[i].v.category = "declined"}
  IN IF hits = {} THEN <<>>
     ELSE <<rcs[CHOOSE i \in hits : \A j \in hits : i <= j].v>>

RECURSIVE GroupsEnd(_, _)
\* the end of (?:,\d{3})* matched from e + 1
GroupsEnd(s, e) ==
  IF /\ e + 4 <= Len(s) /\ Char(s, e + 1) = ","
     /\ \A j \in (e + 2)..(e + 4) : Char(s, j) \in Digits
  THEN GroupsEnd(s, e + 4)
  ELSE e

\* re.search(r'\$?(\d+(?:,\d{3})*(?:\.\d{2})?)', s): <<group 1>>, <<>> when no match
AmountMatch(s) ==
  LET at == {i \in 1..Len(s) : Char(s, i) \in Digits}
  IN IF at = {} THEN <<>>
     ELSE LET d == CHOOSE i \in at : \A j \in at : i <= j
              e1 == GroupsEnd(s, RunEnd(s, d, Digits))
              e2 == IF /\ e1 + 3 <= Len(s) /\ Char(s, e1 + 1) = "."
                       /\ Char(s, e1 + 2) \in Digits /\ Char(s, e1 + 3) \in Digits
                    THEN e1 + 3 ELSE e1
          IN <<SubSeq(s, d, e2)>>

DigitValues == [c \in Digits |-> CHOOSE n \in 0..9 : Char("0123456789", n + 1) = c]
DigitValue(c) == DigitValues[c]

RECURSIVE StrToIntFrom(_, _, _)
StrToIntFrom(s, i, acc) ==
  IF i > Len(s) THEN acc ELSE StrToIntFrom(s, i + 1, 10 * acc + DigitValue(Char(s, i)))
\* int(s) for a string of digits
StrToInt(s) == StrToIntFrom(s, 1, 0)

RECURSIVE IntToStr(_)
\* str(n), n >= 0
IntToStr(n) ==
  IF n < 10 THEN Char("0123456789", n + 1)
  ELSE IntToStr(n \div 10) \o Char("0123456789", (n % 10) + 1)

\* floor(log2(n)), n >= 1
FloorLog2(n) == CHOOSE e \in 0..30 : 2^e <= n /\ n < 2^(e + 1)

\* floor(log2(c / 100)), c >= 1: the exponent of the double nearest to c / 100
FloorLog2Hundredths(c) ==
  LET under == {e \in -7..23 : IF e >= 0 THEN 100 * 2^e <= c ELSE 100 <= c * 2^(0 - e)}
  IN CHOOSE e \in under : \A f \in under : f <= e

RECURSIVE PowMod(_, _)
\* 2^k % m
PowMod(k, m) == IF k = 0 THEN 1 % m ELSE (2 * PowMod(k - 1, m)) % m

\* int(float(t) * 100) for the decimal t of c cents, in IEEE 754 double arithmetic.
\* float(t) is the double m / 2^k nearest to c / 100, with 2^52 <= m < 2^53, so
\* 100 * m = c * 2^k + d with d = -r or 100 - r, r = (c * 2^k) % 100. The product
\* c + d / 2^k is rounded to the doubles around c, which are spacing / 2^k apart
\* (half of that below a power of two); int() truncates, so the result is c - 1
\* when the product rounds below c, and c otherwise.
FloatCents(c) ==
  IF c % 100 = 0 THEN c
  ELSE LET k == 52 - FloorLog2Hundredths(c)
           r == ((c % 100) * PowMod(k, 100)) % 100
           spacing == 2^(FloorLog2(c) - FloorLog2Hundredths(c))
           below == IF c = 2^FloorLog2(c) THEN spacing \div 2 ELSE spacing
       IN IF r < 50 /\ 2 * r > below THEN c - 1 ELSE c

\* the value int(float(token.replace(',', '')) * 100) takes, as a one-element set
CentsOf(token) ==
  LET t == Replace(token, ",", "")
      dot == {i \in 1..Len(t) : Char(t, i) = "."}
      whole == IF dot = {} THEN t ELSE SubSeq(t, 1, Len(t) - 3)
      frac == IF dot = {} THEN "00" ELSE SubSeq(t, Len(t) - 1, Len(t))
  IN {FloatCents(StrToInt(whole) * 100 + StrToInt(frac))}

\* the value intent["amount"] takes, as a one-element set: <<>> is None
ParseAmounts(p) ==
  IF AmountMatch(p) = <<>> THEN {<<>>}
  ELSE {<<Zfill(IntToStr(c), 12)>> : c \in CentsOf(AmountMatch(p)[1])}

\* a parse in which only the keywords decide expected_result
_parse_prompt_by_keywords(p, rcs, amount) ==
  LET prompt_lower == Lower(p)
      negative == AnyIn(prompt_lower, <<"negative", "decline", "reject", "fail">>)
      e2e == Contains(prompt_lower, "e2e") \/ Contains(prompt_lower, "end-to-end")
      regression == Contains(prompt_lower, "regression")
      smoke == Contains(prompt_lower, "smoke")
      reason == BindDeclineReason(rcs, prompt_lower)
  IN [test_type |-> IF regression THEN "regression"
                    ELSE IF e2e THEN "e2e"
                    ELSE IF negative THEN "negative" ELSE "positive",
      transaction_type |-> FirstKeyword(transaction_keywords, prompt_lower, "purchase"),
      card_network |-> FirstKeyword(network_keywords, prompt_lower, "visa"),
      expected_result |-> IF negative THEN "declined" ELSE "approved",
      decline_reason |-> reason,
      amount |-> amount,
      custom_fields |-> <<>>,
      tags |-> (IF e2e THEN <<"e2e">> ELSE <<>>)
               \o (IF regression THEN <<"regression">> ELSE <<>>)
               \o (IF smoke THEN <<"smoke">> ELSE <<>>),
      scenario_count |->
        IF AnyIn(prompt_lower, <<"multiple", "several", "batch", "data-driven">>) THEN 3 ELSE 1]
\* _parse_prompt(prompt) on response codes rcs, with amount one of ParseAmounts(prompt)
_parse_prompt(p, rcs, amount) ==
  LET prompt_lower == Lower(p)
      negative == AnyIn(prompt_lower, <<"negative", "decline", "reject", "fail">>)
      e2e == Contains(prompt_lower, "e2e") \/ Contains(prompt_lower, "end-to-end")
      regression == Contains(prompt_lower, "regression")
      smoke == Contains(prompt_lower, "smoke")
      reason == BindDeclineReason(rcs, prompt_lower)
  IN [test_type |-> IF regression THEN "regression"
                    ELSE IF e2e THEN "e2e"
                    ELSE IF negative THEN "negative" ELSE "positive",
      transaction_type |-> FirstKeyword(transaction_keywords, prompt_lower, "purchase"),
      card_network |-> FirstKeyword(network_keywords, prompt_lower, "visa"),
      expected_result |-> IF negative \/ reason # <<>> THEN "declined" ELSE "approved",
      decline_reason |-> reason,
      amount |-> amount,
      custom_fields |-> <<>>,
      tags |-> (IF e2e THEN <<"e2e">> ELSE <<>>)
               \o (IF regression THEN <<"regression">> ELSE <<>>)
               \o (IF smoke THEN <<"smoke">> ELSE <<>>),
      scenario_count |->
        IF AnyIn(prompt_lower, <<"multiple", "several", "batch", "data-driven">>) THEN 3 ELSE 1]

----------------------------------------------------------------------------
\* TestGenerator._find_template

\* x in list
InSeq(x, seq) == \E i \in 1..Len(seq) : seq[i] = x

\* the score the loop gives one template
Score(t, in) ==
  (IF t.category = in.transaction_type THEN 10 ELSE 0)
  + (IF t.card_network = in.card_network THEN 5 ELSE 0)
  + 2 * Cardinality({i \in 1..Len(in.tags) : InSeq(in.tags[i], t.tags)})

\* the index of the last item with the greatest score
ArgMaxLast(ts, in) ==
  CHOOSE i \in 1..Len(ts) :
    /\ \A j \in 1..Len(ts) : Score(ts[j].v, in) <= Score(ts[i].v, in)
    /\ \A j \in (i + 1)..Len(ts) : Score(ts[j].v, in) < Score(ts[i].v, in)
\* max(scores, key=scores.get): the index of the first item with the greatest score
ArgMaxFirst(ts, in) ==
  CHOOSE i \in 1..Len(ts) :
    /\ \A j \in 1..Len(ts) : Score(ts[j].v, in) <= Score(ts[i].v, in)
    /\ \A j \in 1..(i - 1) : Score(ts[j].v, in) < Score(ts[i].v, in)

\* a _find_template that falls back to an empty-named template when there is none
_find_template_or_blank(ts, in) ==
  IF Len(ts) > 0 THEN <<ts[ArgMaxFirst(ts, in)].v>>
  ELSE <<[id |-> "", name |-> "", description |-> "", category |-> in.transaction_type,
          card_network |-> in.card_network, message_type |-> "", processing_code |-> "",
          fields |-> <<>>, tags |-> <<>>]>>
\* _find_template(intent): <<template>>, or <<>> when list(...)[0] raises IndexError
_find_template(ts, in) ==
  IF Len(ts) > 0 THEN <<ts[ArgMaxFirst(ts, in)].v>> ELSE <<>>

----------------------------------------------------------------------------
\* TestGenerator._generate_feature and the builders it calls

\* the characters of tags, categories and networks in code-point order
CodePointOrder == "-0123456789ABCDEFGHIJKLMNOPQRSTUVWXYZ_abcdefghijklmnopqrstuvwxyz"
OrdOf == [c \in CharsOf(CodePointOrder) |->
            CHOOSE i \in 1..Len(CodePointOrder) : Char(CodePointOrder, i) = c]
Ord(c) == OrdOf[c]

RECURSIVE StrLessFrom(_, _, _)
StrLessFrom(a, b, i) ==
  IF i > Len(b) THEN FALSE
  ELSE IF i > Len(a) THEN TRUE
  ELSE IF Char(a, i) = Char(b, i) THEN StrLessFrom(a, b, i + 1)
  ELSE Ord(Char(a, i)) < Ord(Char(b, i))
\* a < b on str
StrLess(a, b) == StrLessFrom(a, b, 1)

RECURSIVE Sorted(_)
\* sorted(set of str)
Sorted(S) ==
  IF S = {} THEN <<>>
  ELSE LET m == CHOOSE x \in S : \A y \in S \ {x} : StrLess(x, y)
       IN <<m>> \o Sorted(S \ {m})

\* _build_tags
_build_tags(in, t) ==
  LET tags == SeqToSet(in.tags) \cup {t.card_network, t.category}
              \cup (IF in.expected_result = "approved" THEN {"positive"} ELSE {"negative"})
              \cup (IF in.include_sql THEN {"sql"} ELSE {})
  IN "@" \o Join(Sorted(tags), " @")

\* _build_feature_name
_build_feature_name(in, t) ==
  Join(<<Title(t.card_network), Title(t.category)>>
       \o (IF in.expected_result = "declined" /\ in.decline_reason # <<>>
           THEN <<"- " \o in.decline_reason[1].message>>
           ELSE IF in.expected_result = "approved" THEN <<"- Approved">> ELSE <<>>)
       \o (IF in.include_sql THEN <<"with SQL Validation">> ELSE <<>>),
       " ")

\* [f(c) for c in cols], f one of the two shapes _generate_background uses
KeyConds(cols) == [i \in 1..Len(cols) |-> cols[i] \o "='\" + " \o Lower(cols[i]) \o " + \"'"]
KeyParams(cols) == [i \in 1..Len(cols) |-> Lower(cols[i])]

\* the lines _generate_background emits for one SQL table
LookupDeclaration(table_name, table) ==
  << "    # Query " \o table_name,
     "    * def query" \o Replace(table_name, "_", "") \o " = ",
     "    \"\"\"",
     "    function(" \o Join(KeyParams(table.key_columns), ", ") \o ") {",
     "      var DbUtils = Java.type('com.intuit.karate.demo.util.DbUtils');",
     "      return DbUtils.query(\"SELECT * FROM " \o table_name \o " WHERE "
        \o Join(KeyConds(table.key_columns), " AND ") \o "\");",
     "    }",
     "    \"\"\"",
     "" >>

RECURSIVE ConcatAll(_)
\* the concatenation of a sequence of sequences
ConcatAll(ss) == IF Len(ss) = 0 THEN <<>> ELSE ss[1] \o ConcatAll(Tail(ss))

\* _generate_background
_generate_background(in, t, tabs) ==
  Join(<< "  Background:",
          "    * url cosmosUrl",
          "    * def templateName = '" \o t.name \o "'",
          "",
          "    # Dynamic generators",
          "    * def generateSTAN = function(){ return Math.floor(Math.random() * 999999).toString().padStart(6, '0') }",
          "    * def generateRRN = function(){ return Math.floor(Math.random() * 999999999999).toString().padStart(12, '0') }",
          "" >>
       \o (IF in.include_sql
           THEN ConcatAll([i \in 1..Len(tabs) |-> LookupDeclaration(tabs[i].k, tabs[i].v)])
           ELSE <<>>)
       \o << "    * configure headers = { 'Content-Type': 'application/json' }",
             "" >>,
       "\n")

\* the expected response code of _generate_scenario
ExpRc(in) ==
  IF in.expected_result = "approved" THEN "00"
  ELSE IF in.decline_reason # <<>> THEN in.decline_reason[1].code ELSE "05"

\* the expected status of _generate_scenario
ExpStatus(in) == IF in.expected_result = "approved" THEN "COMPLETED" ELSE "DECLINED"

\* the overrides dict of _generate_scenario, in insertion order
Overrides(in) ==
  LET rc == in.decline_reason
      trigger == IF /\ in.expected_result # "approved" /\ rc # <<>>
                    /\ rc[1].trigger_field # "" /\ rc[1].trigger_value # ""
                 THEN OdSet(<<>>, rc[1].trigger_field, rc[1].trigger_value)
                 ELSE <<>>
  IN IF in.amount # <<>> THEN OdSet(trigger, "DE4", in.amount[1]) ELSE trigger

\* the lines of _generate_scenario that validate one SQL table
ValidationBlock(table_name, in) ==
  << "    # Validate " \o table_name,
     "    * def " \o Lower(table_name) \o " = query" \o Replace(table_name, "_", "")
        \o "(rrn, stan)",
     "    * match " \o Lower(table_name) \o " != null" >>
  \o (IF table_name = "PPH_TRAN"
      THEN << "    * match " \o Lower(table_name) \o ".TXN_STATUS == '" \o ExpStatus(in) \o "'",
              "    * match " \o Lower(table_name) \o ".RESP_CODE == '" \o ExpRc(in) \o "'" >>
      ELSE IF table_name = "PPDSVA"
      THEN << "    * match " \o Lower(table_name) \o ".HOST_RESP_CODE == '" \o ExpRc(in) \o "'",
              "    * match " \o Lower(table_name) \o ".FRAUD_CHECK == 'PASS'" >>
      ELSE <<>>)
  \o << "" >>

\* _generate_scenario
_generate_scenario(in, t, tabs) ==
  LET ov == Overrides(in)
      override_parts == <<"DE11: '#(stan)'", "DE37: '#(rrn)'">>
                        \o [i \in 1..Len(ov) |-> ov[i].k \o ": '" \o ov[i].v \o "'"]
      name == IF ExpRc(in) = "00" THEN Title(t.category) \o " - Approved"
              ELSE Title(t.category) \o " - "
                   \o (IF in.decline_reason # <<>> THEN in.decline_reason[1].message
                       ELSE "Declined")
  IN Join(<< "  " \o Join(<<"@" \o in.test_type>>
                           \o (IF in.include_sql THEN <<"@sql">> ELSE <<>>), " "),
             "  Scenario: " \o name,
             "",
             "    # Generate unique identifiers",
             "    * def stan = generateSTAN()",
             "    * def rrn = generateRRN()",
             "",
             "    * def overrides = { " \o Join(override_parts, ", ") \o " }",
             "" >>
          \o (IF in.use_common_calls
              THEN << "    # Send using common scenario",
                      "    * def result = call read('common_scenarios.feature@common_send_0100') { templateName: '#(templateName)', overrides: '#(overrides)' }",
                      "    * def response = result.cosmosResponse" >>
              ELSE << "    # Send request",
                      "    Given path '/template'",
                      "    And param id = templateName",
                      "    And param type = 'MessageTemplate'",
                      "    And request { templateId: '#(templateName)', overrides: '#(overrides)' }",
                      "    When method post",
                      "    Then status 200",
                      "    * def response = response" >>)
          \o << "",
                "    # Validate COSMOS response",
                "    * match response.DE39 == '" \o ExpRc(in) \o "'" >>
          \o (IF ExpRc(in) = "00" THEN <<"    * match response.DE38 == '#notnull'">> ELSE <<>>)
          \o << "" >>
          \o (IF in.include_sql
              THEN ConcatAll([i \in 1..Len(tabs) |-> ValidationBlock(tabs[i].k, in)])
              ELSE <<>>),
          "\n")

\* _generate_data_driven_scenario
_generate_data_driven_scenario(in, t) ==
  Join(<< "  @regression @data-driven",
          "  Scenario Outline: " \o Title(t.category) \o " - <description>",
          "",
          "    * def stan = generateSTAN()",
          "    * def rrn = generateRRN()",
          "    * def overrides = { DE11: '#(stan)', DE37: '#(rrn)', DE2: '<pan>', DE4: '<amount>' }",
          "",
          "    Given path '/template'",
          "    And param id = templateName",
          "    And request { templateId: '#(templateName)', overrides: '#(overrides)' }",
          "    When method post",
          "    Then status 200",
          "    And match response.DE39 == '<expectedRC>'",
          "" >>
       \o (IF in.include_sql
           THEN << "    * def pph = queryPPHTRAN(rrn, stan)",
                   "    * match pph.TXN_STATUS == '<expectedStatus>'",
                   "" >>
           ELSE <<>>)
       \o << "    Examples:",
             "      | description         | pan                | amount       | expectedRC | expectedStatus |",
             "      | Approved Low        | 4144779500060809   | 000000000100 | 00         | COMPLETED      |",
             "      | Approved Medium     | 4144779500060809   | 000000010000 | 00         | COMPLETED      |",
             "      | Insufficient Funds  | 4111111111111112   | 999999999999 | 51         | DECLINED       |",
             "      | Expired Card        | 4144779500060809   | 000000000100 | 54         | DECLINED       |",
             "" >>,
       "\n")

\* _generate_feature, with now the text datetime.now().strftime(...) gives
_generate_feature(in, t, tabs, now) ==
  Join(<< _build_tags(in, t),
          "Feature: " \o _build_feature_name(in, t),
          "" >>
       \o (IF in.include_docs
           THEN << "  # Generated: " \o now,
                   "  # Template: " \o t.name,
                   "  # Category: " \o t.category,
                   "  # Network: " \o t.card_network,
                   "" >>
           ELSE <<>>)
       \o << _generate_background(in, t, tabs) >>
       \o << IF in.scenario_count > 1
             THEN _generate_data_driven_scenario(in, t)
             ELSE _generate_scenario(in, t, tabs) >>,
       "\n")

\* options.get(key, True)
OptGet(opts, key) == IF key \in DOMAIN opts THEN opts[key] ELSE TRUE

\* the intent generate passes on: the parsed intent with the options applied
WithOptions(in, opts) ==
  [test_type |-> in.test_type, transaction_type |-> in.transaction_type,
   card_network |-> in.card_network, expected_result |-> in.expected_result,
   decline_reason |-> in.decline_reason, amount |-> in.amount,
   custom_fields |-> in.custom_fields, tags |-> in.tags,
   scenario_count |-> in.scenario_count,
   include_sql |-> OptGet(opts, "include_sql"),
   use_common_calls |-> OptGet(opts, "use_common_calls"),
   include_docs |-> OptGet(opts, "include_docs")]

----------------------------------------------------------------------------
\* Inputs

RECURSIVE SeqsUpTo(_, _)
\* the sequences over S of length 0..n
SeqsUpTo(S, n) ==
  IF n = 0 THEN {<<>>}
  ELSE LET shorter == SeqsUpTo(S, n - 1)
       IN shorter \cup {Append(q, x) : q \in shorter, x \in S}

\* the lines documents are made of
DocLines ==
  { "Feature: Login", "Feature: Refund", "@smoke", "@e2e", "Background:",
    "Scenario: Approved", "  Scenario Outline: Declined", "* def rrn = '1234'" }

\* the documents analyze is given in Spec
Documents == {Join(ls, "\n") : ls \in SeqsUpTo(DocLines, MaxLines) \ {<<>>}}

\* the lines and documents of SpecLearn
LearnLines == { "Scenario: Approved", "* def rrn = '1234'", "* def rrn = '5678'" }
LearnDocuments == {Join(ls, "\n") : ls \in SeqsUpTo(LearnLines, MaxLearnLines) \ {<<>>}}

\* the documents of SpecFrame: one that uses a template and a response code, one
\* whose steps are outside any section
FrameDocuments ==
  { "@smoke\nScenario: Approved\n* def templateName = 'fwd_visa_0100'\n* match response.DE39 == '00'",
    "* def rrn = '1234'\nScenario: Approved" }

\* the lines and documents of SpecRepeat
RepeatLines ==
  { "Scenario: Approved", "Background:", "* def rrn = '1234'", "* def rrn = '5678'",
    "* print 12345" }
RepeatDocuments == {Join(ls, "\n") : ls \in SeqsUpTo(RepeatLines, MaxRepeatLines) \ {<<>>}}

\* the step strings of SpecNorm
StepChars == {"'", "\"", "7", "a"}
StepStrings == {Join(cs, "") : cs \in SeqsUpTo(StepChars, MaxStepLen)}

\* the words prompts are made of, and the prompts
PromptWords == {"refund", "amex", "smoke", "multiple"}
Prompts ==
  {Join(ws, " ") : ws \in SeqsUpTo(PromptWords, MaxPromptWords)}
  \cup {"Declined due to insufficient funds", "Insufficient funds", "Expired card",
        "Negative test", "Purchase of $50", "Refund of $19.99", "Void a refund of 1,250.50",
        "Cash back at atm", "Insufficient funds $50"}

OptionKeys == {"include_sql", "use_common_calls", "include_docs"}
\* the options dicts: None or {}, and every dict that sets the three keys
OptionDicts == {<<>>} \cup [OptionKeys -> BOOLEAN]

\* the texts datetime.now().strftime('%Y-%m-%d %H:%M:%S') can give
Clock == {"2024-01-01 00:00:00", "2024-01-01 00:00:01"}

\* the templates and response codes callers add in SpecGen
NewTemplates ==
  { [id |-> "amex_purchase_0100", name |-> "fwd_amex_purchase_0100",
     description |-> "Amex Purchase", category |-> "purchase", card_network |-> "amex",
     message_type |-> "0100", processing_code |-> "000000",
     fields |-> [DMTI |-> "0100"], tags |-> <<"amex", "purchase", "smoke">>],
    [id |-> "visa_purchase_0100", name |-> "fwd_visa_refund_v2",
     description |-> "Visa Refund, second version", category |-> "refund",
     card_network |-> "visa", message_type |-> "0100", processing_code |-> "200000",
     fields |-> [DMTI |-> "0100"], tags |-> <<"visa", "refund">>],
    [id |-> "visa_purchase_smoke", name |-> "fwd_visa_purchase_smoke",
     description |-> "Visa Purchase for smoke runs", category |-> "purchase",
     card_network |-> "visa", message_type |-> "0100", processing_code |-> "000000",
     fields |-> [DMTI |-> "0100"], tags |-> <<"smoke">>] }
NewResponseCodes ==
  { [code |-> "51", message |-> "Insufficient Funds", category |-> "error",
     trigger_field |-> "", trigger_value |-> ""],
    [code |-> "N1", message |-> "Expired Token", category |-> "declined",
     trigger_field |-> "DE14", trigger_value |-> "1901"] }

\* the SQL tables callers add in SpecSql
NewSqlTables ==
  { [name |-> "AUDIT_LOG", description |-> "Audit trail",
     columns |-> [TRAN_ID |-> [type |-> "VARCHAR2(36)", desc |-> "Transaction ID"]],
     key_columns |-> <<"TRAN_ID">>],
    [name |-> "PPDSVA", description |-> "Value added, keyed by transaction",
     columns |-> [TRAN_ID |-> [type |-> "VARCHAR2(36)", desc |-> "Transaction ID"],
                  RRN |-> [type |-> "VARCHAR2(12)", desc |-> "RRN"],
                  STAN |-> [type |-> "VARCHAR2(6)", desc |-> "STAN"]],
     key_columns |-> <<"TRAN_ID", "RRN", "STAN">>] }

\* the template of NewTemplates with the given id, and the response code with the given code
NewTemplate(id) == CHOOSE t \in NewTemplates : t.id = id
NewResponseCode(code) == CHOOSE rc \in NewResponseCodes : rc.code = code

\* d without the item of key
Without(d, key) == SelectSeq(d, LAMBDA item : item.k # key)

\* the texts given to import_from_json: malformed; {}; a template under an existing key;
\* a template under a key that is not its id; a good template followed by one without
\* "name"; a response code that takes the defaults; a template followed by a response
\* code without "message"; custom scenarios with a response code that has an unknown
\* field; custom scenarios alone
ImportTexts ==
  { [wellformed |-> FALSE],
    [wellformed |-> TRUE, data |-> <<>>],
    [wellformed |-> TRUE,
     data |-> [templates |->
                 << [k |-> "visa_purchase_0100", v |-> to_dict(NewTemplate("visa_purchase_0100"))] >>]],
    [wellformed |-> TRUE,
     data |-> [templates |->
                 << [k |-> "alias", v |-> to_dict(NewTemplate("amex_purchase_0100"))] >>]],
    [wellformed |-> TRUE,
     data |-> [templates |->
                 << [k |-> "visa_purchase_smoke", v |-> to_dict(NewTemplate("visa_purchase_smoke"))],
                    [k |-> "amex_purchase_0100",
                     v |-> Without(to_dict(NewTemplate("amex_purchase_0100")), "name")] >>]],
    [wellformed |-> TRUE,
     data |-> [response_codes |->
                 << [k |-> "N2",
                     v |-> << [k |-> "code", v |-> "N2"], [k |-> "message", v |-> "Closed Account"],
                              [k |-> "category", v |-> "declined"] >>] >>]],
    [wellformed |-> TRUE,
     data |-> [templates |->
                 << [k |-> "visa_purchase_smoke", v |-> to_dict(NewTemplate("visa_purchase_smoke"))] >>,
               response_codes |->
                 << [k |-> "51", v |-> Without(asdict(NewResponseCode("51")), "message")] >>]],
    [wellformed |-> TRUE,
     data |-> [response_codes |->
                 << [k |-> "N1",
                     v |-> Append(asdict(NewResponseCode("N1")), [k |-> "severity", v |-> "high"])] >>,
               custom_scenarios |-> << [name |-> "chargeback"] >>]],
    [wellformed |-> TRUE,
     data |-> [custom_scenarios |-> << [name |-> "chargeback"] >>]] }

----------------------------------------------------------------------------
\* Specifications

\* the state after KnowledgeBase(), FeatureAnalyzer(kb) and TestGenerator(kb)
Init ==
  /\ analyzed_files = <<>> /\ step_patterns = <<>> /\ scenario_patterns = <<>>
  /\ templates = DefaultTemplates
  /\ response_codes = DefaultResponseCodes
  /\ field_definitions = DefaultFieldDefinitions
  /\ sql_tables = DefaultSqlTables
  /\ learned_patterns = <<>>
  /\ custom_scenarios = <<>>
  /\ pc = "idle" /\ content = "" /\ lines = <<>> /\ pos = 1
  /\ analysis = NewAnalysis("") /\ current_section = "None"
  /\ current_content = <<>> /\ current_tags = <<>>
  /\ returned = NewAnalysis("") /\ docs = <<>> /\ pattern_log = <<>>
  /\ prompt = <<>> /\ options = <<>> /\ intent = <<>> /\ template = <<>>
  /\ output = <<>> /\ raised = "None" /\ output_again = <<>>
  /\ step = "" /\ learned_keys = <<>>
  /\ kb_op = "None" /\ kb_arg = <<>> /\ kb_before = <<>> /\ kb_raised = "None"
     /\ fresh = <<>> /\ kb_calls = 0

\* analyze is called on a document of Documents, once
Analyze ==
  \E c \in Documents : Len(docs) = 0 /\ AnalyzeBegin(c, "unknown")

Next ==
  \/ Analyze
  \/ ReadFeatureLine
  \/ ReadTagLine
  \/ ReadBackgroundHeader
  \/ ReadScenarioHeader
  \/ ReadOtherLine
  \/ AnalyzeEnd

\* one call of analyze on a fresh FeatureAnalyzer
Spec == Init /\ [][Next]_vars

\* analyze is called on a document of LearnDocuments, up to MaxCalls times
AnalyzeAgain ==
  \E c \in LearnDocuments : Len(docs) < MaxCalls /\ AnalyzeBegin(c, "unknown")

NextLearn ==
  \/ AnalyzeAgain
  \/ ReadScenarioHeader
  \/ ReadOtherLine
  \/ AnalyzeEnd

\* successive calls of analyze on one FeatureAnalyzer
SpecLearn == Init /\ [][NextLearn]_vars

\* analyze is called on a document of RepeatDocuments, then on the same document again
AnalyzeSame ==
  \E c \in RepeatDocuments :
    /\ Len(docs) < MaxRepeats
    /\ Len(docs) > 0 => c = docs[1]
    /\ AnalyzeBegin(c, "unknown")

NextRepeat ==
  \/ AnalyzeSame
  \/ ReadBackgroundHeader
  \/ ReadScenarioHeader
  \/ ReadOtherLine
  \/ AnalyzeEnd

\* the same document analyzed again and again by one FeatureAnalyzer
SpecRepeat == Init /\ [][NextRepeat]_vars

\* _learn_step(step)
LearnStep ==
  /\ Len(learned_keys) = 0
  /\ step_patterns' = _learn_step(step_patterns, step)
  /\ learned_keys' = Append(learned_keys, Normalize(step))
  /\ UNCHANGED <<step, analyzed_files, scenario_patterns, kbVars, callVars, logVars, genVars, ioVars>>

\* _learn_step(key), key the pattern the first call learned
RelearnStep ==
  /\ Len(learned_keys) = 1
  /\ step_patterns' = _learn_step(step_patterns, learned_keys[1])
  /\ learned_keys' = Append(learned_keys, Normalize(learned_keys[1]))
  /\ UNCHANGED <<step, analyzed_files, scenario_patterns, kbVars, callVars, logVars, genVars, ioVars>>

InitNorm ==
  \E s \in StepStrings :
    /\ Init!1 /\ Init!2 /\ Init!3 /\ Init!4 /\ Init!5 /\ Init!6 /\ Init!7 /\ Init!8
    /\ Init!9 /\ Init!10 /\ Init!11 /\ Init!12 /\ Init!13
    /\ step = s /\ learned_keys = <<>>
    /\ Init!15

NextNorm ==
  \/ LearnStep
  \/ RelearnStep

\* _learn_step on a step string, then on the pattern it was normalized to
SpecNorm == InitNorm /\ [][NextNorm]_vars

\* kb.add_template(t)
AddTemplate ==
  \E t \in NewTemplates :
    /\ prompt = <<>>
    /\ Len(add_template(templates, t)) <= MaxTemplates
    /\ templates' = add_template(templates, t)
    /\ UNCHANGED <<response_codes, field_definitions, sql_tables, learned_patterns,
                   custom_scenarios, analyzerVars, callVars, logVars, genVars, learnVars, ioVars>>

\* kb.add_response_code(rc)
AddResponseCode ==
  \E rc \in NewResponseCodes :
    /\ prompt = <<>>
    /\ Len(add_response_code(response_codes, rc)) <= MaxResponseCodes
    /\ response_codes' = add_response_code(response_codes, rc)
    /\ UNCHANGED <<templates, field_definitions, sql_tables, learned_patterns,
                   custom_scenarios, analyzerVars, callVars, logVars, genVars, learnVars, ioVars>>

\* generate(prompt, options); datetime.now() is read when include_docs is set
Generate ==
  /\ prompt = <<>>
  /\ \E p \in Prompts :
       \E amount \in ParseAmounts(p) :
         \E parsed \in {_parse_prompt(p, response_codes, amount)} :
           \E opts \in OptionDicts :
             \E in \in {WithOptions(parsed, opts)} :
               \E found \in {_find_template(templates, in)} :
                 \E now \in (IF in.include_docs THEN Clock ELSE {""}) :
                   /\ prompt' = <<p>>
                   /\ options' = opts
                   /\ intent' = in
                   /\ template' = found
                   /\ IF found = <<>>
                      THEN output' = <<>> /\ raised' = "IndexError"
                      ELSE /\ output' = <<_generate_feature(in, found[1], sql_tables, now)>>
                           /\ raised' = "None"
                   /\ UNCHANGED <<output_again, analyzerVars, kbVars, callVars, logVars,
                                  learnVars, ioVars>>

\* the timestamp the first call of generate wrote, "" when it wrote none
FirstNow ==
  IF intent.include_docs
  THEN CHOOSE c \in Clock : Contains(output[1], "  # Generated: " \o c)
  ELSE ""

\* generate(prompt, options) again, with the arguments of the first call, on the same
\* knowledge base; the clock has not gone back
GenerateAgain ==
  /\ prompt # <<>> /\ raised = "None" /\ output_again = <<>>
  /\ \E amount \in ParseAmounts(prompt[1]) :
       \E in \in {WithOptions(_parse_prompt(prompt[1], response_codes, amount), options)} :
         \E found \in {_find_template(templates, in)} :
           \E now \in (IF in.include_docs
                        THEN {c \in Clock : ~StrLess(c, FirstNow)} ELSE {""}) :
             output_again' = <<_generate_feature(in, found[1], sql_tables, now)>>
  /\ UNCHANGED <<prompt, options, intent, template, output, raised, analyzerVars, kbVars,
                 callVars, logVars, learnVars, ioVars>>

NextAgain ==
  \/ Generate
  \/ GenerateAgain

\* generate is called, then called again with the same arguments
SpecAgain == Init /\ [][NextAgain]_vars

NextGen ==
  \/ AddTemplate
  \/ AddResponseCode
  \/ Generate

\* the knowledge base is extended, then generate is called once
SpecGen == Init /\ [][NextGen]_vars

\* a knowledge base whose templates dict the caller has emptied (kb.templates.clear();
\* the attribute is public and no method of KnowledgeBase removes a template)
InitBare ==
  /\ Init!1
  /\ templates = <<>>
  /\ Init!3 /\ Init!4 /\ Init!5 /\ Init!6 /\ Init!7 /\ Init!8 /\ Init!9 /\ Init!10
  /\ Init!11 /\ Init!12 /\ Init!13 /\ Init!14 /\ Init!15

\* generate on a knowledge base that starts without templates
SpecBare == InitBare /\ [][NextGen]_vars

\* kb.add_sql_table(table)
AddSqlTable ==
  \E table \in NewSqlTables :
    /\ prompt = <<>>
    /\ Len(add_sql_table(sql_tables, table)) <= MaxSqlTables
    /\ sql_tables' = add_sql_table(sql_tables, table)
    /\ UNCHANGED <<templates, response_codes, field_definitions, learned_patterns,
                   custom_scenarios, analyzerVars, callVars, logVars, genVars, learnVars, ioVars>>

\* analyze is called on a document of FrameDocuments, once, before generate
AnalyzeFirst ==
  \E c \in FrameDocuments : Len(docs) = 0 /\ prompt = <<>> /\ AnalyzeBegin(c, "unknown")

\* generate is called when no call of analyze is under way
GenerateIdle == pc = "idle" /\ Generate

\* a knowledge base as constructed, or one whose templates dict the caller has emptied
InitFrame ==
  /\ Init!1
  /\ templates \in {DefaultTemplates, <<>>}
  /\ Init!3 /\ Init!4 /\ Init!5 /\ Init!6 /\ Init!7 /\ Init!8 /\ Init!9 /\ Init!10
  /\ Init!11 /\ Init!12 /\ Init!13 /\ Init!14 /\ Init!15

NextFrame ==
  \/ AnalyzeFirst
  \/ ReadTagLine
  \/ ReadScenarioHeader
  \/ ReadOtherLine
  \/ AnalyzeEnd
  \/ GenerateIdle

\* one FeatureAnalyzer and one TestGenerator on one knowledge base: analyze, then generate
SpecFrame == InitFrame /\ [][NextFrame]_vars

NextSql ==
  \/ AddSqlTable
  \/ Generate

\* SQL tables are added to the knowledge base, then generate is called once
SpecSql == Init /\ [][NextSql]_vars

\* the dicts and the list of the knowledge base that import_from_json writes
KbDicts ==
  [templates |-> templates, response_codes |-> response_codes,
   custom_scenarios |-> custom_scenarios]

\* kb.add_template(t), the call recorded
KbAddTemplate ==
  \E t \in NewTemplates :
    /\ kb_calls < MaxKbCalls
    /\ templates' = add_template(templates, t)
    /\ kb_op' = "add_template" /\ kb_arg' = t /\ kb_before' = KbDicts
    /\ kb_raised' = "None" /\ kb_calls' = kb_calls + 1
    /\ UNCHANGED <<response_codes, field_definitions, sql_tables, learned_patterns,
                   custom_scenarios, fresh, analyzerVars, callVars, logVars, genVars,
                   learnVars>>

\* kb.add_response_code(rc), the call recorded
KbAddResponseCode ==
  \E rc \in NewResponseCodes :
    /\ kb_calls < MaxKbCalls
    /\ response_codes' = add_response_code(response_codes, rc)
    /\ kb_op' = "add_response_code" /\ kb_arg' = rc /\ kb_before' = KbDicts
    /\ kb_raised' = "None" /\ kb_calls' = kb_calls + 1
    /\ UNCHANGED <<templates, field_definitions, sql_tables, learned_patterns,
                   custom_scenarios, fresh, analyzerVars, callVars, logVars, genVars,
                   learnVars>>

\* kb.import_from_json(text)
ImportFromJson ==
  \E text \in ImportTexts :
    \E r \in {import_from_json(templates, response_codes, custom_scenarios, text)} :
      /\ kb_calls < MaxKbCalls
      /\ templates' = r.templates
      /\ response_codes' = r.response_codes
      /\ custom_scenarios' = r.custom_scenarios
      /\ kb_op' = "import_from_json" /\ kb_arg' = text /\ kb_before' = KbDicts
      /\ kb_raised' = r.raised /\ kb_calls' = kb_calls + 1
      /\ UNCHANGED <<field_definitions, sql_tables, learned_patterns, fresh, analyzerVars,
                     callVars, logVars, genVars, learnVars>>

\* KnowledgeBase().import_from_json(kb.export_to_json())
ExportImport ==
  /\ kb_calls < MaxKbCalls
  /\ fresh' = import_from_json(DefaultTemplates, DefaultResponseCodes, <<>>,
                               export_to_json(templates, response_codes, custom_scenarios,
                                              learned_patterns))
  /\ kb_op' = "export_to_json" /\ kb_arg' = <<>> /\ kb_before' = KbDicts
  /\ kb_raised' = "None" /\ kb_calls' = kb_calls + 1
  /\ UNCHANGED <<kbVars, analyzerVars, callVars, logVars, genVars, learnVars>>

\* kb.import_from_json(text); kb.import_from_json(text), for a text the first call
\* accepts; kb_before is the knowledge base between the two calls
ImportTwice ==
  \E text \in ImportTexts :
    \E r1 \in {import_from_json(templates, response_codes, custom_scenarios, text)} :
      \E r2 \in {import_from_json(r1.templates, r1.response_codes, r1.custom_scenarios, text)} :
        /\ kb_calls + 2 <= MaxKbCalls
        /\ r1.raised = "None"
        /\ templates' = r2.templates
        /\ response_codes' = r2.response_codes
        /\ custom_scenarios' = r2.custom_scenarios
        /\ kb_op' = "import_twice" /\ kb_arg' = text
        /\ kb_before' = [templates |-> r1.templates, response_codes |-> r1.response_codes,
                         custom_scenarios |-> r1.custom_scenarios]
        /\ kb_raised' = r2.raised /\ kb_calls' = kb_calls + 2
        /\ UNCHANGED <<field_definitions, sql_tables, learned_patterns, fresh, analyzerVars,
                       callVars, logVars, genVars, learnVars>>

\* kb.import_from_json(kb.export_to_json())
ImportOwnExport ==
  \E r \in {import_from_json(templates, response_codes, custom_scenarios,
                              export_to_json(templates, response_codes, custom_scenarios,
                                             learned_patterns))} :
    /\ kb_calls < MaxKbCalls
    /\ templates' = r.templates
    /\ response_codes' = r.response_codes
    /\ custom_scenarios' = r.custom_scenarios
    /\ kb_op' = "import_own_export" /\ kb_arg' = <<>> /\ kb_before' = KbDicts
    /\ kb_raised' = r.raised /\ kb_calls' = kb_calls + 1
    /\ UNCHANGED <<field_definitions, sql_tables, learned_patterns, fresh, analyzerVars,
                   callVars, logVars, genVars, learnVars>>

NextKb ==
  \/ KbAddTemplate
  \/ KbAddResponseCode
  \/ ImportFromJson
  \/ ExportImport
  \/ ImportTwice
  \/ ImportOwnExport

\* calls of add_template, add_response_code, import_from_json and export_to_json
SpecKb == Init /\ [][NextKb]_vars

----------------------------------------------------------------------------
\* Properties of FeatureAnalyzer.analyze, stated on the document the call was given

\* the call of analyze has returned
Analyzed == pc = "idle" /\ Len(docs) > 0

\* the stripped lines of the document
StrippedLines == [i \in 1..Len(lines) |-> Strip(lines[i])]

\* line i of the document is a Background: or Scenario:/Scenario Outline: header
IsSectionHeaderAt(i) ==
  IsBackgroundHeader(StrippedLines[i]) \/ IsScenarioHeader(StrippedLines[i])

\* the index of the last section header before line p, 0 when there is none
LastHeaderBefore(p) ==
  LET hs == {i \in 1..(p - 1) : IsSectionHeaderAt(i)}
  IN IF hs = {} THEN 0 ELSE CHOOSE i \in hs : \A j \in hs : j <= i

\* the Scenario:/Scenario Outline: header lines of the document, in document order
ScenarioHeaders == SelectSeq(StrippedLines, IsScenarioHeader)

\* C1: once analyze has returned, the scenario records are as many as the
\* Scenario:/Scenario Outline: header lines of the document, and the i-th record is
\* the one opened by the i-th header (a section open when a header is read is
\* finalized, never dropped).
C1_ScenarioPerHeader ==
  Analyzed =>
    /\ Len(returned.scenarios) = Len(ScenarioHeaders)
    /\ \A i \in 1..Len(returned.scenarios) :
         returned.scenarios[i].content[1][1] = ScenarioHeaders[i]

\* the tags of the tag lines read since the section header before line h
PendingTagsAt(h) ==
  UNION {SeqToSet(FindTags(StrippedLines[j])) :
           j \in {k \in (LastHeaderBefore(h) + 1)..(h - 1) : IsTagLine(StrippedLines[k])}}

\* the index of the last Scenario:/Scenario Outline: header of the document
LastScenarioHeader ==
  CHOOSE i \in 1..Len(lines) :
    /\ IsScenarioHeader(StrippedLines[i])
    /\ \A j \in (i + 1)..Len(lines) : ~IsScenarioHeader(StrippedLines[j])

\* C2: the last scenario record returned carries, in its tags field or next to its
\* header line, exactly the tags of all tag lines read between the previous section
\* header and its own header.
C2_TagsOfOwnHeader ==
  (Analyzed /\ Len(returned.scenarios) > 0) =>
    LET rec == returned.scenarios[Len(returned.scenarios)]
        pending == PendingTagsAt(LastScenarioHeader)
    IN \/ SeqToSet(rec.tags) = pending
       \/ SeqToSet(rec.content[1][2]) = pending

\* C3: once analyze has returned, the section open at the end of input is finalized:
\* an open Background with buffered lines is in backgrounds as its joined text, an
\* open Scenario is the last record of scenarios.
C3_EndFinalizesOpenSection ==
  Analyzed =>
    /\ (current_section = "background" /\ Len(current_content) > 0)
         => InSeq(Join(current_content, "\n"), returned.backgrounds)
    /\ current_section = "scenario"
         => /\ Len(returned.scenarios) > 0
            /\ returned.scenarios[Len(returned.scenarios)].content = current_content

\* the body buffered for the open section: what follows the header's own entry
OpenSectionBody ==
  IF current_section = "scenario" THEN Tail(current_content) ELSE current_content

\* C4: while analyze reads the document, the body of the open section is the
\* stripped lines read since its header, and before the first section header no
\* section is open, nothing is buffered and no step pattern has been learned.
C4_LinesJoinOpenSection ==
  pc = "loop" =>
    LET h == LastHeaderBefore(pos)
    IN IF h = 0
       THEN current_section = "None" /\ current_content = <<>> /\ DOMAIN step_patterns = {}
       ELSE OpenSectionBody = [i \in 1..(pos - 1 - h) |-> StrippedLines[h + i]]

\* the indices of the lines starting with 'Feature:'
FeatureLineIndices == {i \in 1..Len(lines) : IsFeatureLine(StrippedLines[i])}

\* C5: the feature_name analyze returns is the text after 'Feature:' on the first
\* line starting with 'Feature:', and "" when the document has no such line.
C5_FirstFeatureLineNames ==
  Analyzed =>
    returned.feature_name =
      IF FeatureLineIndices = {} THEN ""
      ELSE LET first == CHOOSE i \in FeatureLineIndices : \A j \in FeatureLineIndices : i <= j
           IN Strip(Replace(StrippedLines[first], "Feature:", ""))

----------------------------------------------------------------------------
\* Properties of the learned step patterns

\* C6: when one FeatureAnalyzer has analyzed the same document n times, the distinct
\* patterns are those of the first analysis and each frequency is n times its
\* frequency after the first analysis (doubled by the second analysis); between
\* and during the repeats no pattern is added to those of the first analysis.
C6_RepeatMultipliesFrequencies ==
  (Len(docs) > 0 /\ \A n \in 1..Len(docs) : docs[n] = docs[1]) =>
    /\ \A n \in 1..Len(pattern_log) :
         /\ DOMAIN pattern_log[n] = DOMAIN pattern_log[1]
         /\ \A k \in DOMAIN pattern_log[n] : pattern_log[n][k] = n * pattern_log[1][k]
    /\ (pc = "idle" \/ content = docs[1]) => DOMAIN step_patterns = DOMAIN pattern_log[1]

\* the second analysis of a document has returned, and two of its steps share a pattern
C6_Witness ==
  /\ pc = "idle" /\ Len(docs) = 2 /\ docs[2] = docs[1]
  /\ \E k \in DOMAIN step_patterns : pattern_log[1][k] = 2 /\ step_patterns[k] = 4

\* C7: normalizing a normalized step gives the same pattern: when _learn_step has
\* learned a step and then the pattern it stored, both calls counted the same
\* pattern, which is the only one and has frequency 2.
C7_NormalizeIdempotent ==
  Len(learned_keys) = 2 =>
    /\ learned_keys[2] = learned_keys[1]
    /\ DOMAIN step_patterns = {learned_keys[1]}
    /\ step_patterns[learned_keys[1]] = 2

\* a step with a quoted literal was learned and its pattern learned again
C7_Witness ==
  /\ Len(learned_keys) = 2
  /\ learned_keys[1] # step
  /\ Contains(learned_keys[1], "\"{value}\"")

----------------------------------------------------------------------------
\* Properties of TestGenerator.generate

\* generate has returned a feature text
Generated == prompt # <<>> /\ raised = "None"

\* C8: on a freshly constructed knowledge base the prompt "Declined due to
\* insufficient funds" is parsed as declined with response code "51" as the decline
\* reason, and the text generated has the override DE4: '999999999999' and the
\* assertion response.DE39 == '51'.
C8_InsufficientFundsIs51 ==
  (/\ prompt = <<"Declined due to insufficient funds">>
   /\ templates = DefaultTemplates /\ response_codes = DefaultResponseCodes) =>
    /\ intent.expected_result = "declined"
    /\ intent.decline_reason # <<>>
    /\ intent.decline_reason[1].code = "51"
    /\ raised = "None"
    /\ Contains(output[1], "DE4: '999999999999'")
    /\ Contains(output[1], "response.DE39 == '51'")

\* the text asserts response code '00': literally, or by an outline with a '00' example
AssertsApprovedCode(text) ==
  \/ Contains(text, "match response.DE39 == '00'")
  \/ /\ Contains(text, "match response.DE39 == '<expectedRC>'")
     /\ Contains(text, "| 00         |")

\* C9: whenever the parsed intent is approved, whatever the options, the text
\* generated asserts that response.DE39 is '00' and that response.DE38 is non-null.
C9_ApprovedAssertsCodeAndAuthId ==
  (Generated /\ intent.expected_result = "approved") =>
    /\ AssertsApprovedCode(output[1])
    /\ Contains(output[1], "match response.DE38 == '#notnull'")

\* the score of the claim: 10 for the category, 5 for the network, 2 per intent tag
TemplateScore(t) ==
  (IF t.category = intent.transaction_type THEN 10 ELSE 0)
  + (IF t.card_network = intent.card_network THEN 5 ELSE 0)
  + 2 * Cardinality({i \in 1..Len(intent.tags) : InSeq(intent.tags[i], t.tags)})

\* the indices of the templates whose score is the greatest
BestTemplates ==
  {i \in 1..Len(templates) :
     \A j \in 1..Len(templates) : TemplateScore(templates[j].v) <= TemplateScore(templates[i].v)}

\* C10: the template generate selected is the first, in the insertion order of
\* kb.templates, of the templates whose score is the greatest.
C10_FirstOfBestTemplates ==
  (prompt # <<>> /\ template # <<>>) =>
    \E i \in BestTemplates :
      /\ template[1] = templates[i].v
      /\ \A j \in BestTemplates : i <= j

\* a template was selected among several of the greatest score, one of them added
C10_Witness ==
  /\ prompt # <<>> /\ template # <<>>
  /\ Len(templates) > Len(DefaultTemplates)
  /\ \E i, j \in BestTemplates : i < j /\ j > Len(DefaultTemplates)

\* the exception classes that are LookupError or derive from it
LookupErrors == {"LookupError", "IndexError", "KeyError"}

\* C11: when generate is called on a knowledge base that holds no template, the call
\* raises an exception of the LookupError class and returns no text.
C11_NoTemplateRaisesLookupError ==
  (prompt # <<>> /\ Len(templates) = 0) => raised \in LookupErrors /\ output = <<>>

\* generate was called on a knowledge base without templates and raised IndexError
C11_Witness == prompt # <<>> /\ Len(templates) = 0 /\ raised = "IndexError"

----------------------------------------------------------------------------
\* Properties of the KnowledgeBase calls

\* the dicts a and b have the same keys and equal entities under each key
SameByKey(a, b) == Keys(a) = Keys(b) /\ \A key \in Keys(a) : OdGet(a, key) = OdGet(b, key)

\* C12: when the export of a knowledge base reached by add_template, add_response_code
\* and import_from_json calls is imported into a freshly constructed knowledge base,
\* the import raises nothing and the fresh templates and response codes have the keys
\* of the original, each key with an equal entity.
C12_ExportImportRoundTrip ==
  kb_op = "export_to_json" =>
    /\ fresh.raised = "None"
    /\ SameByKey(fresh.templates, templates)
    /\ SameByKey(fresh.response_codes, response_codes)

\* an export was imported from a knowledge base holding a template under a key that
\* is not its id and a replaced default template
C12_Witness ==
  /\ kb_op = "export_to_json"
  /\ "alias" \in Keys(templates)
  /\ OdGet(templates, "visa_purchase_0100") # OdGet(DefaultTemplates, "visa_purchase_0100")

\* the keys of dict `name` that the last call names
NamedKeys(name) ==
  CASE kb_op = "add_template" -> IF name = "templates" THEN {kb_arg.id} ELSE {}
    [] kb_op = "add_response_code" -> IF name = "response_codes" THEN {kb_arg.code} ELSE {}
    [] kb_op = "import_from_json" ->
         IF kb_arg.wellformed /\ name \in DOMAIN kb_arg.data
         THEN Keys(kb_arg.data[name]) ELSE {}
    [] OTHER -> {}

\* the call left every entry under a key it does not name, removed no key and added
\* only keys it names
FrameOf(name, before, after) ==
  /\ \A key \in Keys(before) :
       key \in Keys(after) /\ (key \notin NamedKeys(name) => OdGet(after, key) = OdGet(before, key))
  /\ Keys(after) \subseteq Keys(before) \cup NamedKeys(name)

\* C13: after add_template, add_response_code or import_from_json, every template and
\* response code under a key the call does not name is what it was, no key is gone
\* and no unnamed key is new; an add under an existing id leaves the number of
\* entries and stores the entity given.
C13_CallsWriteOnlyNamedKeys ==
  kb_op # "None" =>
    /\ FrameOf("templates", kb_before.templates, templates)
    /\ FrameOf("response_codes", kb_before.response_codes, response_codes)
    /\ (kb_op = "add_template" /\ kb_arg.id \in Keys(kb_before.templates)) =>
         /\ Len(templates) = Len(kb_before.templates)
         /\ OdGet(templates, kb_arg.id) = kb_arg
    /\ (kb_op = "add_response_code" /\ kb_arg.code \in Keys(kb_before.response_codes)) =>
         /\ Len(response_codes) = Len(kb_before.response_codes)
         /\ OdGet(response_codes, kb_arg.code) = kb_arg

\* an import overwrote the template of an existing key while other templates were stored
C13_Witness ==
  /\ kb_op = "import_from_json" /\ kb_raised = "None"
  /\ \E key \in NamedKeys("templates") :
       /\ key \in Keys(kb_before.templates)
       /\ OdGet(templates, key) # OdGet(kb_before.templates, key)
  /\ Len(kb_before.templates) > Len(DefaultTemplates)

\* C14: when import_from_json raises, the templates, the response codes and the
\* custom scenarios of the knowledge base are what they were before the call.
C14_RejectedImportChangesNothing ==
  (kb_op = "import_from_json" /\ kb_raised # "None") => KbDicts = kb_before

\* C24: importing the same valid JSON text twice in a row leaves the templates, the
\* response codes and the custom scenarios as they were after the first import, and
\* importing the export of a knowledge base into that same knowledge base leaves
\* them unchanged.
C24_ImportIsIdempotent ==
  (kb_op \in {"import_twice", "import_own_export"} /\ kb_raised = "None") =>
    KbDicts = kb_before

----------------------------------------------------------------------------
\* Further properties of TestGenerator.generate and _parse_prompt

\* C15: a second call of generate with the same prompt and options on the same
\* knowledge base returns the text the first call returned.
C15_GenerateIsDeterministic ==
  output_again # <<>> => output_again = output

\* the cents of a currency token, in exact decimal arithmetic
ExactCents(token) ==
  LET t == Replace(token, ",", "")
      dot == {i \in 1..Len(t) : Char(t, i) = "."}
  IN IF dot = {} THEN StrToInt(t) * 100
     ELSE StrToInt(SubSeq(t, 1, Len(t) - 3)) * 100 + StrToInt(SubSeq(t, Len(t) - 1, Len(t)))

\* C16: the amount of the parsed intent is absent when the prompt has no currency-like
\* numeric token, and otherwise is 12 decimal digits whose value is 100 times the
\* value of the first such token.
C16_AmountIsCentsOfFirstToken ==
  prompt # <<>> =>
    IF AmountMatch(prompt[1]) = <<>> THEN intent.amount = <<>>
    ELSE /\ intent.amount # <<>>
         /\ Len(intent.amount[1]) = 12
         /\ \A i \in 1..12 : Char(intent.amount[1], i) \in Digits
         /\ StrToInt(intent.amount[1]) = ExactCents(AmountMatch(prompt[1])[1])

\* the categories of the claim, in table order
CategoryOrder == <<"withdrawal", "refund", "reversal", "balance", "cashback">>

\* the entries of CategoryOrder with a keyword in the prompt
CategoriesMatched ==
  {i \in 1..Len(CategoryOrder) :
     AnyIn(Lower(prompt[1]), OdGet(transaction_keywords, CategoryOrder[i]))}

\* C17: the transaction type of the parsed intent is the first category, in the order
\* withdrawal, refund, reversal, balance, cashback, with a keyword in the prompt, and
\* purchase when none has; where the keywords stand in the prompt does not matter.
C17_FirstCategoryInTableOrder ==
  prompt # <<>> =>
    intent.transaction_type =
      IF CategoriesMatched = {} THEN "purchase"
      ELSE CategoryOrder[CHOOSE i \in CategoriesMatched : \A j \in CategoriesMatched : i <= j]

\* a prompt was parsed in which a keyword of reversal stands before one of refund
C17_Witness ==
  /\ prompt = <<"Void a refund of 1,250.50">>
  /\ {2, 3} \subseteq CategoriesMatched
  /\ intent.transaction_type = "refund"

\* the message of the response code, or one of its words, is in the text
MentionedIn(rc, text) ==
  \E message \in {Lower(rc.message)} :
    \/ Contains(text, message)
    \/ \E words \in {SplitWords(message)} : \E i \in 1..Len(words) : Contains(text, words[i])

\* the indices of the declined response codes the text mentions
DeclinedMentionedIn(text) ==
  {i \in 1..Len(response_codes) :
     response_codes[i].v.category = "declined" /\ MentionedIn(response_codes[i].v, text)}

\* C18: the decline reason of the parsed intent is the first response code, in the
\* insertion order of kb.response_codes, of category "declined" whose message or one
\* of whose message words is in the lowercased prompt, and None when there is none;
\* a code of another category is never bound.
C18_FirstDeclinedCodeMentioned ==
  prompt # <<>> =>
    \E mentioned \in {DeclinedMentionedIn(Lower(prompt[1]))} :
      /\ intent.decline_reason =
           IF mentioned = {} THEN <<>>
           ELSE <<response_codes[CHOOSE i \in mentioned : \A j \in mentioned : i <= j].v>>
      /\ intent.decline_reason # <<>> => intent.decline_reason[1].category = "declined"

\* a prompt was parsed that mentions a response code of a category other than declined
C18_Witness ==
  /\ prompt # <<>>
  /\ \E i \in 1..Len(response_codes) :
       /\ response_codes[i].v.category # "declined"
       /\ MentionedIn(response_codes[i].v, Lower(prompt[1]))

\* C19: the parsed intent is declined exactly when the prompt has one of "negative",
\* "decline", "reject", "fail" or a decline reason was bound, and approved otherwise;
\* an approved intent carries no decline reason.
C19_DeclinedIffKeywordOrReason ==
  prompt # <<>> =>
    /\ intent.expected_result \in {"approved", "declined"}
    /\ intent.expected_result = "declined" <=>
         \/ AnyIn(Lower(prompt[1]), <<"negative", "decline", "reject", "fail">>)
         \/ intent.decline_reason # <<>>
    /\ intent.expected_result = "approved" => intent.decline_reason = <<>>

\* a prompt without any of the four keywords was parsed and a decline reason bound
C19_Witness ==
  /\ prompt # <<>>
  /\ ~AnyIn(Lower(prompt[1]), <<"negative", "decline", "reject", "fail">>)
  /\ intent.decline_reason # <<>>
  /\ intent.expected_result = "declined"

\* the response code and the status the claim expects the assertions to use
ClaimedCode ==
  IF intent.expected_result = "approved" THEN "00"
  ELSE IF intent.decline_reason # <<>> THEN intent.decline_reason[1].code ELSE "05"
ClaimedStatus == IF intent.expected_result = "approved" THEN "COMPLETED" ELSE "DECLINED"

\* wherever the text compares with marker, the value compared to is value, quoted
ComparesOnlyTo(text, marker, value) ==
  \A i \in 1..Len(text) :
    MatchAt(text, i, marker) => MatchAt(text, i + Len(marker), "'" \o value \o "'")

\* C20: the text generate returns asserts response.DE39 against "00" for an approved
\* intent, the code of the bound decline reason for a declined one, "05" when
\* declined with no reason bound; every SQL response-code assertion uses that same
\* code and every SQL status assertion COMPLETED when approved, DECLINED otherwise.
C20_AssertionsUseExpectedCode ==
  Generated =>
    /\ Contains(output[1], "match response.DE39 == '" \o ClaimedCode \o "'")
    /\ ComparesOnlyTo(output[1], "response.DE39 == ", ClaimedCode)
    /\ ComparesOnlyTo(output[1], "RESP_CODE == ", ClaimedCode)
    /\ ComparesOnlyTo(output[1], "TXN_STATUS == ", ClaimedStatus)
    /\ intent.include_sql =>
         /\ Contains(output[1], ".RESP_CODE == '" \o ClaimedCode \o "'")
         /\ Contains(output[1], ".TXN_STATUS == '" \o ClaimedStatus \o "'")

\* generate has returned a feature text with a single scenario
GeneratedSingle == Generated /\ intent.scenario_count = 1

\* the entries of the override map the text declares, each as "field: 'value'"
EmittedOverrides(text) ==
  LET marker == "    * def overrides = { "
      at == CHOOSE i \in 1..Len(text) : MatchAt(text, i, marker)
      start == at + Len(marker)
      stop == CHOOSE j \in start..Len(text) :
                MatchAt(text, j, " }") /\ \A m \in start..(j - 1) : ~MatchAt(text, m, " }")
  IN {Strip(part) : part \in SeqToSet(Split(SubSeq(text, start, stop - 1), ","))}

\* the decline reason bound has a trigger pair and the intent is declined
TriggerApplies ==
  /\ intent.expected_result = "declined"
  /\ intent.decline_reason # <<>>
  /\ intent.decline_reason[1].trigger_field # ""
  /\ intent.decline_reason[1].trigger_value # ""

\* the entries the override map is claimed to have
ClaimedOverrides ==
  {"DE11: '#(stan)'", "DE37: '#(rrn)'"}
  \cup (IF TriggerApplies
        THEN {intent.decline_reason[1].trigger_field \o ": '"
              \o intent.decline_reason[1].trigger_value \o "'"}
        ELSE {})
  \cup (IF intent.amount # <<>> THEN {"DE4: '" \o intent.amount[1] \o "'"} ELSE {})

\* C21: the override map of a single-scenario text has DE11 and DE37, the trigger
\* field of the bound decline reason mapped to its trigger value whenever the intent
\* is declined and the reason has a trigger pair, DE4 mapped to the amount whenever
\* an amount is present, and nothing else; both overrides are there when both apply.
C21_OverridesAreTriggerAndAmount ==
  GeneratedSingle => EmittedOverrides(output[1]) = ClaimedOverrides

\* the number of places of text where p is found
Occurrences(text, p) == Cardinality({i \in 1..Len(text) : MatchAt(text, i, p)})

\* the name of the lookup function of a table
LookupName(table_name) == "query" \o Replace(table_name, "_", "")

\* the text declares the lookup function of the table once, with the lower-cased key
\* columns as its parameters
DeclaresLookup(text, table) ==
  /\ Occurrences(text, "* def " \o LookupName(table.name) \o " = \n") = 1
  /\ Contains(text, "* def " \o LookupName(table.name) \o " = \n    \"\"\"\n    function("
                    \o Join([i \in 1..Len(table.key_columns) |-> Lower(table.key_columns[i])],
                            ", ")
                    \o ") {")

\* the arguments of the call that starts at position at of text, which is after its "("
ArgumentsAt(text, at) ==
  LET stop == CHOOSE j \in at..Len(text) :
                Char(text, j) = ")" /\ \A m \in at..(j - 1) : Char(text, m) # ")"
  IN Split(SubSeq(text, at, stop - 1), ",")

\* the text has one validation block for the table: one call of its lookup function,
\* with one argument per key column, and the assertion that the record is not null
ValidatesTable(text, table) ==
  LET call == "* def " \o Lower(table.name) \o " = " \o LookupName(table.name) \o "("
  IN /\ Occurrences(text, call) = 1
     /\ \A i \in 1..Len(text) :
          MatchAt(text, i, call) =>
            Len(ArgumentsAt(text, i + Len(call))) = Len(table.key_columns)
     /\ Occurrences(text, "* match " \o Lower(table.name) \o " != null") = 1

\* C22: when SQL validation is requested, the text generate returns declares exactly
\* one lookup function per SQL table of the knowledge base, with that table's key
\* columns as parameters, and has one validation block per SQL table that calls the
\* table's lookup function with one argument per key column and asserts that the
\* record is not null; when it is not requested the text has no lookup declaration,
\* no validation block and no sql tag.
C22_SqlValidationPerTable ==
  Generated =>
    IF intent.include_sql
    THEN /\ Occurrences(output[1], "* def query") = Len(sql_tables)
         /\ Occurrences(output[1], " != null") = Len(sql_tables)
         /\ \A i \in 1..Len(sql_tables) :
              /\ DeclaresLookup(output[1], sql_tables[i].v)
              /\ ValidatesTable(output[1], sql_tables[i].v)
    ELSE /\ ~Contains(output[1], "* def query")
         /\ ~Contains(output[1], " != null")
         /\ ~Contains(output[1], " = query")
         /\ ~Contains(output[1], "@sql")

----------------------------------------------------------------------------
\* Frame of generate and analyze on the knowledge base

\* the step is a call of generate, returning or raising
GenerateStep == prompt = <<>> /\ prompt' # <<>>

\* the step belongs to a call of analyze
AnalyzeStep == pc # "idle" \/ pc' # "idle"

\* C23: generate changes nothing in the knowledge base (templates, response_codes,
\* sql_tables, field_definitions, learned_patterns and custom_scenarios are the same
\* before and after, also when it raises), and analyze changes only learned_patterns
\* there: templates, response_codes, sql_tables and custom_scenarios stay as they are.
C23_GenerateAndAnalyzeFrame ==
  [][/\ GenerateStep => UNCHANGED kbVars
     /\ AnalyzeStep => UNCHANGED <<templates, response_codes, sql_tables, custom_scenarios>>]_vars

\* analyze has changed learned_patterns after reading a scenario, and generate has raised
C23_Witness ==
  /\ Len(docs) > 0 /\ pc = "idle"
  /\ Len(returned.scenarios) > 0
  /\ "steps" \in DOMAIN learned_patterns
  /\ prompt # <<>> /\ raised = "IndexError"

----------------------------------------------------------------------------
\* Tags of the generated text

\* the line of text that starts at position at
LineAt(text, at) ==
  LET stop == CHOOSE j \in at..(Len(text) + 1) :
                (j = Len(text) + 1 \/ Char(text, j) = "\n")
                /\ \A m \in at..(j - 1) : Char(text, m) # "\n"
  IN SubSeq(text, at, stop - 1)

\* the tag line of the feature: the first line of the text
FeatureTagLine(text) == LineAt(text, 1)

\* the tag line of the scenario: the line before the Scenario header
ScenarioTagLine(text) ==
  LET header == CHOOSE i \in 1..Len(text) : MatchAt(text, i, "\n  Scenario: ")
      start == CHOOSE i \in 1..header :
                 (i = 1 \/ Char(text, i - 1) = "\n")
                 /\ \A m \in i..(header - 1) : Char(text, m) # "\n"
  IN SubSeq(text, start, header - 1)

\* the tags of a tag line
TagsOf(line) == SeqToSet(SplitWords(line))

\* C25: in every single-scenario text the tag line of the feature has exactly one of
\* positive and negative, it has negative exactly when the expected result is
\* declined, and the scenario is not tagged @positive when the expected result is
\* declined.
C25_TagPolarityAgrees ==
  GeneratedSingle =>
    /\ Cardinality(TagsOf(FeatureTagLine(output[1])) \cap {"@positive", "@negative"}) = 1
    /\ "@negative" \in TagsOf(FeatureTagLine(output[1])) <=> intent.expected_result = "declined"
    /\ intent.expected_result = "declined" =>
         "@positive" \notin TagsOf(ScenarioTagLine(output[1]))

----------------------------------------------------------------------------
\* Learned step patterns over successive calls of analyze

\* the patterns of the step lines of a document that come after a section header,
\* in line order
SeenPatterns(doc) ==
  LET ls == Split(doc, "\n")
      st == [i \in 1..Len(ls) |-> Strip(ls[i])]
      inside(i) == /\ IsStep(st[i])
                   /\ \E j \in 1..(i - 1) : IsBackgroundHeader(st[j]) \/ IsScenarioHeader(st[j])
  IN ConcatAll([i \in 1..Len(ls) |-> IF inside(i) THEN <<Normalize(st[i])>> ELSE <<>>])

\* the patterns of the step lines seen in sections, over all the documents
SeenIn(ds) == ConcatAll([n \in 1..Len(ds) |-> SeenPatterns(ds[n])])

\* the number of the patterns seen that are key
TimesSeen(seen, key) == Cardinality({i \in 1..Len(seen) : seen[i] = key})

\* every key of map a is in map b with a frequency that is not smaller
GrowsTo(a, b) == \A key \in DOMAIN a : key \in DOMAIN b /\ b[key] >= a[key]

\* the steps map of the knowledge base, empty before the first call has ended
LearnedSteps(lp) == IF "steps" \in DOMAIN lp THEN lp["steps"] ELSE <<>>

\* when the calls made so far have returned, the knowledge base has the step patterns
\* of the analyzer, each frequency is the number of step lines seen in sections, and
\* analyzed_files has one entry per call, the last being the analysis returned last
LearnedIsSeen ==
  (pc = "idle" /\ Len(docs) > 0) =>
    \A seen \in {SeenIn(docs)} :
      /\ DOMAIN learned_patterns["steps"] = DOMAIN step_patterns
      /\ \A key \in DOMAIN step_patterns :
           /\ learned_patterns["steps"][key] = step_patterns[key]
           /\ step_patterns[key] >= 1
           /\ step_patterns[key] = TimesSeen(seen, key)
      /\ DOMAIN step_patterns = SeqToSet(seen)
      /\ Len(analyzed_files) = Len(docs)
      /\ analyzed_files[Len(analyzed_files)] = returned

\* a step removes no key and lowers no frequency, in the analyzer and in the knowledge
\* base, and leaves analyzed_files or appends one entry to it
LearnedGrows ==
  /\ GrowsTo(step_patterns, step_patterns')
  /\ GrowsTo(LearnedSteps(learned_patterns), LearnedSteps(learned_patterns'))
  /\ \/ analyzed_files' = analyzed_files
     \/ /\ Len(analyzed_files') = Len(analyzed_files) + 1
        /\ SubSeq(analyzed_files', 1, Len(analyzed_files)) = analyzed_files

\* C26: after any sequence of analyze calls on one FeatureAnalyzer bound to one
\* knowledge base, learned_patterns["steps"] equals the step_patterns of the analyzer,
\* every frequency is at least 1 and is the number of step lines seen inside open
\* sections, over all documents analyzed, that normalize to its key; no frequency
\* ever decreases, no key is ever removed, and analyzed_files has one entry per call
\* in call order.
C26_LearnedStepsCountSeenLines ==
  []LearnedIsSeen /\ [][LearnedGrows]_vars

\* two calls on different documents have returned, and a pattern was seen in both
C26_Witness ==
  /\ pc = "idle" /\ Len(docs) = 2 /\ docs[1] # docs[2]
  /\ \E key \in DOMAIN pattern_log[1] : step_patterns[key] > pattern_log[1][key]

====
